---- MODULE Spec2Model ----
(***************************************************************************)
(* Model of the workflow engine of src/src/workflow_engine.py:             *)
(* WorkflowEngine.add_step, WorkflowEngine.execute and                     *)
(* WorkflowEngine._execute_single_step, with the step callables as the     *)
(* environment.  One engine instance; execute may be called repeatedly.    *)
(***************************************************************************)
EXTENDS Integers, Sequences, FiniteSets, TLC

\* Largest number of steps registered on the engine.
MaxSteps == 3

\* Longest string entered in a form field.
MaxLen == 2

\* Largest number of entries of a list-valued form field.
MaxItems == 3

\* Largest min_count passed to validate_minimum_count.
MaxCount == 2

\* Largest number of names passed to validate_unique_names.
MaxNames == 4

(***************************************************************************)
(* Python values                                                           *)
(***************************************************************************)

\* None
NoneV == [t |-> "None"]

\* A reference to a list object of the heap.
ListV(ref) == [t |-> "list", ref |-> ref]

\* An object as returned by create_and_save: it has the attributes id and name.
NodeV(n) == [t |-> "node", id |-> n, name |-> "node" \o ToString(n)]

\* An object that has neither an id nor a name attribute.
BareV == [t |-> "bare"]

\* The dict a step function returns, as the functions of the tests do.
DictV(fn) == [t |-> "dict", status |-> "success", message |-> fn \o " completed"]

\* Optional[...] fields of WorkflowStep: None or a value.
NoArg == [isNone |-> TRUE, items |-> <<>>]
SomeArg(items) == [isNone |-> FALSE, items |-> items]

\* isinstance(v, dict)
IsDict(v) == v.t = "dict"

\* hasattr(v, a): of the values here only the objects create_and_save returns
\* have attributes; the keys of a dict are not attributes.
HasAttr(v, a) == v.t = "node" /\ a \in DOMAIN v \ {"t"}

\* str(getattr(v, a, "unknown"))
GetAttrStr(v, a) ==
    IF HasAttr(v, a)
    THEN (IF a = "id" THEN ToString(v[a]) ELSE v[a])
    ELSE "unknown"

\* type(v).__name__
TypeName(v) ==
    CASE v.t = "node" -> "Node"
      [] v.t = "bare" -> "object"
      [] v.t = "None" -> "NoneType"
      [] v.t = "list" -> "list"
      [] v.t = "str" -> "str"
      [] v.t = "bool" -> "bool"
      [] v.t = "int" -> "int"
      [] OTHER -> "dict"

\* dict item assignment d[k] = v, del d[k] and d.setdefault(k, v)
SetItem(d, k, v) == [x \in (DOMAIN d) \cup {k} |-> IF x = k THEN v ELSE d[x]]
DelItem(d, k) == [x \in (DOMAIN d) \ {k} |-> d[x]]
SetDefault(d, k, v) == IF k \in DOMAIN d THEN d ELSE SetItem(d, k, v)

(***************************************************************************)
(* The environment: step callables and the callers' initial contexts       *)
(***************************************************************************)

\* Callables that ignore what they are called with.
PureFns == {"ret_dict", "ret_node", "ret_bare", "raise"}

\* Callables written against the shared context, f(context).
CtxFns == {"write_X", "write_X_fails", "read_X", "del_X", "del_created"}

\* The (args, kwargs) a step is added with: none, positional only, keyword only.
ArgShapes == {<< <<>>, {} >>, << <<"v">>, {} >>, << <<>>, {"k"} >>}

\* The display name for the n-th step added.
StepName(n) == "s" \o ToString(n)

\* The lists of the heap: two owned by the caller of execute (pre-seeded
\* reserved keys), two created by execute's setdefault calls.
ListRefs == {"caller_created", "caller_errors", "new_created", "new_errors"}

\* A record already in the caller's created-object log.
PriorRecord == [step |-> "earlier", result |-> DictV("earlier"), status |-> "success"]

EmptyHeap == [r \in ListRefs |-> IF r = "caller_created" THEN <<PriorRecord>> ELSE <<>>]

\* The initial_context arguments of execute.
InitialContexts ==
    { [initial |-> [t |-> "str", s |-> "data"]],
      [initial |-> [t |-> "str", s |-> "data"],
       created_objects |-> ListV("caller_created"),
       errors |-> ListV("caller_errors")],
      [initial |-> [t |-> "str", s |-> "data"],
       created_objects |-> NoneV] }

VARIABLES
    steps,          \* self.steps
    supplied,       \* history: the (args, kwargs) each step was added with
    pc,             \* "idle", "running", "summarize", "returned", "raised"
    i,              \* position of execute's for loop in self.steps
    initial_context,\* the caller's mapping passed to execute
    context,        \* execute's local context
    heap,           \* the list objects
    steps_results,  \* execute's local steps_results
    errors,         \* execute's local errors
    result,         \* the WorkflowResult returned
    exc,            \* the exception that left execute
    calls,          \* history: the invocations of step callables, in order
    nextObj         \* number of the next object a callable creates

VARIABLES
    status,         \* execute_with_status: the state and label of the status box
    ncalls          \* history: execute calls made with the current step list

\* The state the callables of src/examples/workflow_patterns.py close over.
VARIABLES
    example         \* which workflow of the examples was built, which remote
                    \* call fails, and self.references / self.object_registry

\* The state of the service layer (validation, forms, event publishing).
VARIABLES
    vcall,          \* a call of a validation function: inputs and, once returned, result
    svc             \* a call into the service layer (event publishing, task
                    \* simulation, option lookup, form submission) and its outcome

serviceVars == <<vcall, svc>>

engineVars == <<steps, supplied, pc, i, initial_context, context, heap, steps_results,
                errors, result, exc, calls, nextObj, status, ncalls, example>>

vars == <<engineVars, serviceVars>>

\* No status box is open.
NoStatus == [state |-> "none", label |-> ""]

\* No validation function has been called.
NoCall == [fn |-> "none"]

\* The service layer at rest.
ServiceIdle == vcall = NoCall /\ svc = NoCall

NoResult == [t |-> "None"]
NoExc == ""

\* No workflow of the examples was built; an empty reference registry.
NoReferences == [k \in {} |-> NoneV]
NoExample == [pattern |-> "none", fail |-> "none", references |-> NoReferences]

\* A new engine: WorkflowEngine.__init__.
EngineInit ==
    /\ steps = <<>>
    /\ supplied = <<>>
    /\ pc = "idle"
    /\ i = 1
    /\ initial_context = [initial |-> [t |-> "str", s |-> "data"]]
    /\ context = initial_context
    /\ heap = EmptyHeap
    /\ steps_results = <<>>
    /\ errors = <<>>
    /\ result = NoResult
    /\ exc = NoExc
    /\ calls = <<>>
    /\ nextObj = 1
    /\ status = NoStatus
    /\ ncalls = 0
    /\ example = NoExample

Init == EngineInit /\ ServiceIdle

(***************************************************************************)
(* The step callables                                                      *)
(***************************************************************************)

\* What a call of a step function produced: an exception (raised, msg) or a
\* return value (ret), the context mapping after the call, whether the
\* function created an object, and for the history what the function stored
\* under / read from context["X"].
Outcome(raised, msg, ret, ctx, made, wrote, read) ==
    [raised |-> raised, msg |-> msg, ret |-> ret, ctx |-> ctx, made |-> made,
     wrote |-> wrote, read |-> read]

\* bool(v): None, False, 0, the empty str, the empty list and the empty dict
\* are false, every other value is true.
Truthy(v) ==
    CASE v.t = "None" -> FALSE
      [] v.t = "bool" -> v.v
      [] v.t = "int" -> v.v # 0
      [] v.t = "str" -> v.s # ""
      [] v.t = "list" -> heap[v.ref] # <<>>
      [] v.t = "dict" -> DOMAIN v # {"t"}
      [] OTHER -> TRUE

\* context.get("X")
GetX(ctx) == IF "X" \in DOMAIN ctx THEN ctx["X"] ELSE NoneV

\* The body of each callable, run on the mapping it was handed.
FnBody(fn, ctx, n) ==
    CASE fn = "ret_dict" -> Outcome(FALSE, "", DictV(fn), ctx, FALSE, NoneV, NoneV)
      [] fn = "ret_node" -> Outcome(FALSE, "", NodeV(n), ctx, TRUE, NoneV, NoneV)
      [] fn = "ret_bare" -> Outcome(FALSE, "", BareV, ctx, FALSE, NoneV, NoneV)
      [] fn = "raise" -> Outcome(TRUE, "Step failed", NoneV, ctx, FALSE, NoneV, NoneV)
      \* obj = create(); context["X"] = obj; return obj (create_metro_location)
      [] fn = "write_X" ->
            Outcome(FALSE, "", NodeV(n), SetItem(ctx, "X", NodeV(n)), TRUE,
                    NodeV(n), NoneV)
      \* obj = create() raises: nothing is stored
      [] fn = "write_X_fails" ->
            Outcome(TRUE, "Failed to create object", NoneV, ctx, FALSE, NoneV, NoneV)
      \* x = context.get("X"); if not x: raise ValueError (create_building_location)
      [] fn = "read_X" ->
            IF ~Truthy(GetX(ctx))
            THEN Outcome(TRUE, "X must be created first", NoneV, ctx, FALSE, NoneV, NoneV)
            ELSE Outcome(FALSE, "", DictV(fn), ctx, FALSE, NoneV, GetX(ctx))
      \* context.pop("X", None)
      [] fn = "del_X" ->
            Outcome(FALSE, "", DictV(fn), DelItem(ctx, "X"), FALSE, NoneV, NoneV)
      \* context.pop("created_objects", None)
      [] fn = "del_created" ->
            Outcome(FALSE, "", DictV(fn), DelItem(ctx, "created_objects"), FALSE,
                    NoneV, NoneV)

\* Line 141, function(context): the function is handed the live context
\* mapping, so what it stores there stays.
CallWithCopy(fn, ctx, n) == [FnBody(fn, ctx, n) EXCEPT !.ctx = ctx]
CallWithContext(fn, ctx, n) == FnBody(fn, ctx, n)

\* Line 126, function(*args, **kwargs): the function never sees the context.  The pure
\* callables accept any arguments.  A function written as f(context) gets the
\* str argument as its mapping, or no argument at all, and raises.
CallWithArgs(fn, args, kwargs, ctx, n) ==
    IF fn \notin CtxFns
    THEN [FnBody(fn, ctx, n) EXCEPT !.ctx = ctx]
    ELSE IF kwargs # {}
    THEN Outcome(TRUE, fn \o "() got an unexpected keyword argument 'k'",
                 NoneV, ctx, FALSE, NoneV, NoneV)
    ELSE IF args = <<>>
    THEN Outcome(TRUE, fn \o "() missing 1 required positional argument: 'context'",
                 NoneV, ctx, FALSE, NoneV, NoneV)
    ELSE CASE fn = "write_X" ->
                Outcome(TRUE, "'str' object does not support item assignment",
                        NoneV, ctx, TRUE, NoneV, NoneV)
           [] fn = "write_X_fails" ->
                Outcome(TRUE, "Failed to create object",
                        NoneV, ctx, FALSE, NoneV, NoneV)
           [] fn = "read_X" ->
                Outcome(TRUE, "'str' object has no attribute 'get'",
                        NoneV, ctx, FALSE, NoneV, NoneV)
           [] OTHER ->
                Outcome(TRUE, "'str' object has no attribute 'pop'",
                        NoneV, ctx, FALSE, NoneV, NoneV)

(***************************************************************************)
(* The callables of src/examples/workflow_patterns.py                      *)
(***************************************************************************)

\* create_branch (src/src/infrahub.py), the two functions of pattern 1, the
\* closures of DcDeploymentWorkflowBuilder and those of
\* EnhancedWorkflowEngine.add_object_creation_step.
TwoParameterFns == {"create_metro_location", "create_building_location"}
ZeroParameterFns == {"create_metro_with_reference", "create_building_with_reference",
                     "create_and_register_metro", "create_and_register_building"}
ExampleFns == {"create_branch"} \cup TwoParameterFns \cup ZeroParameterFns

\* function.__qualname__, the name Python puts in the TypeError of a call
\* whose arguments do not fit: a function defined inside a method carries
\* the path to it.
QualName(fn) ==
    CASE fn = "create_metro_with_reference" ->
           "DcDeploymentWorkflowBuilder.add_metro_location_creation.<locals>."
           \o "create_metro_with_reference"
      [] fn = "create_building_with_reference" ->
           "DcDeploymentWorkflowBuilder.add_building_location_creation.<locals>."
           \o "create_building_with_reference"
      [] fn \in {"create_and_register_metro", "create_and_register_building"} ->
           "EnhancedWorkflowEngine.add_object_creation_step.<locals>.create_and_register"
      [] OTHER -> fn

\* The numbers of positional arguments a callable accepts:
\* create_branch(branch_name, client=None), f(form_data, context), f().
Accepts(fn) ==
    IF fn = "create_branch" THEN {1, 2}
    ELSE IF fn \in TwoParameterFns THEN {2}
    ELSE {0}

\* The remote calls that can fail, and the one each callable makes.
RemoteCalls == {"branch", "metro", "building"}
RemoteCallOf(fn) ==
    IF fn = "create_branch" THEN "branch"
    ELSE IF fn \in {"create_metro_location", "create_metro_with_reference",
                    "create_and_register_metro"} THEN "metro"
    ELSE "building"

\* The dict create_branch returns (infrahub.py lines 199-203).
BranchDict == [t |-> "dict", name |-> "implement_chg-1", status |-> "created",
               sync_with_git |-> "false"]

\* An outcome together with the reference registry after the call.
WithReferences(outcome, references) ==
    [raised |-> outcome.raised, msg |-> outcome.msg, ret |-> outcome.ret,
     ctx |-> outcome.ctx, made |-> outcome.made, wrote |-> outcome.wrote,
     read |-> outcome.read, references |-> references]

\* The AttributeError of v.id for a value without that attribute.
NoIdAttribute(v) == "'" \o TypeName(v) \o "' object has no attribute 'id'"

\* The body of a callable of the examples, entered with the arguments bound
\* to its parameters.  mapping is what the function uses as context (None
\* when it got something else), refs is the registry its closure holds.
ExampleBody(fn, mapping, ctx, n, ex) ==
    LET refs == ex.references
        fails == ex.fail = RemoteCallOf(fn)
        raises(msg) == WithReferences(Outcome(TRUE, msg, NoneV, ctx, FALSE, NoneV, NoneV), refs)
    IN  CASE fn = "create_branch" ->
               IF fails
               THEN raises("Failed to create branch 'implement_chg-1': refused")
               ELSE WithReferences(Outcome(FALSE, "", BranchDict, ctx, FALSE, NoneV, NoneV),
                                   refs)
          \* lines 18-32
          [] fn = "create_metro_location" ->
               IF mapping = NoneV
               THEN raises("'str' object has no attribute 'get'")
               ELSE IF fails
               THEN raises("create refused")
               ELSE WithReferences(
                        Outcome(FALSE, "", NodeV(n),
                                SetItem(SetItem(ctx, "metro_location", NodeV(n)),
                                        "metro_location_id", [t |-> "str", s |-> ToString(n)]),
                                TRUE, NodeV(n), NoneV),
                        refs)
          \* lines 38-57
          [] fn = "create_building_location" ->
               IF mapping = NoneV
               THEN raises("'str' object has no attribute 'get'")
               ELSE IF "metro_location" \notin DOMAIN ctx \/ ~Truthy(ctx["metro_location"])
               THEN raises("Metro location must be created first")
               ELSE IF ~HasAttr(ctx["metro_location"], "id")
               THEN raises(NoIdAttribute(ctx["metro_location"]))
               ELSE IF fails
               THEN raises("create refused")
               ELSE WithReferences(
                        Outcome(FALSE, "", NodeV(n),
                                SetItem(SetItem(ctx, "building_location", NodeV(n)),
                                        "building_location_id",
                                        [t |-> "str", s |-> ToString(n)]),
                                TRUE, NodeV(n), ctx["metro_location"]),
                        refs)
          \* lines 113-124 and 179-183 with the data factory of lines 206-210
          [] fn \in {"create_metro_with_reference", "create_and_register_metro"} ->
               IF fails
               THEN raises("create refused")
               ELSE WithReferences(Outcome(FALSE, "", NodeV(n), ctx, TRUE, NodeV(n), NoneV),
                                   SetItem(refs, "metro", NodeV(n)))
          \* lines 134-149
          [] fn = "create_building_with_reference" ->
               IF "metro" \notin DOMAIN refs
               THEN raises("Metro location must be created first")
               ELSE IF ~HasAttr(refs["metro"], "id")
               THEN raises(NoIdAttribute(refs["metro"]))
               ELSE IF fails
               THEN raises("create refused")
               ELSE WithReferences(Outcome(FALSE, "", NodeV(n), ctx, TRUE, NodeV(n),
                                           refs["metro"]),
                                   SetItem(refs, "building", NodeV(n)))
          \* lines 179-183 with the data factory of lines 219-224
          [] OTHER ->
               IF "metro" \notin DOMAIN refs
               THEN raises("'metro'")
               ELSE IF ~HasAttr(refs["metro"], "id")
               THEN raises(NoIdAttribute(refs["metro"]))
               ELSE IF fails
               THEN raises("create refused")
               ELSE WithReferences(Outcome(FALSE, "", NodeV(n), ctx, TRUE, NodeV(n),
                                           refs["metro"]),
                                   SetItem(refs, "building", NodeV(n)))

\* function(*positional, **keywords) for a callable of the examples: Python
\* binds the arguments first and raises TypeError when their number does not
\* fit the parameters.  "context" stands for the live context mapping.
CallExample(fn, positional, keywords, ctx, n, ex) ==
    IF keywords # {}
    THEN WithReferences(Outcome(TRUE, QualName(fn) \o "() got an unexpected keyword argument 'k'",
                                NoneV, ctx, FALSE, NoneV, NoneV), ex.references)
    ELSE IF Len(positional) \notin Accepts(fn)
    THEN WithReferences(
             Outcome(TRUE,
                     IF Len(positional) > 2 \/ (Len(positional) > 0 /\ fn \in ZeroParameterFns)
                     THEN QualName(fn) \o "() takes "
                          \o (IF fn \in ZeroParameterFns THEN "0"
                              ELSE IF fn = "create_branch" THEN "from 1 to 2" ELSE "2")
                          \o " positional arguments but " \o ToString(Len(positional))
                          \o (IF Len(positional) = 1 THEN " was given" ELSE " were given")
                     ELSE IF fn = "create_branch"
                     THEN "create_branch() missing 1 required positional argument: 'branch_name'"
                     ELSE IF Len(positional) = 0
                     THEN fn \o "() missing 2 required positional arguments: "
                          \o "'form_data' and 'context'"
                     ELSE fn \o "() missing 1 required positional argument: 'context'",
                     NoneV, ctx, FALSE, NoneV, NoneV),
             ex.references)
    ELSE ExampleBody(fn,
                     IF fn \in TwoParameterFns /\ positional[2] = "context"
                     THEN ctx ELSE NoneV,
                     ctx, n, ex)

(***************************************************************************)
(* WorkflowEngine                                                          *)
(***************************************************************************)

\* WorkflowStep(name, function, list(args) or None, kwargs or None)
WorkflowStep(name, function, args, kwargs) ==
    [name |-> name,
     function |-> function,
     args |-> IF args = <<>> THEN NoArg ELSE SomeArg(args),
     kwargs |-> IF kwargs = {} THEN NoArg ELSE SomeArg(kwargs)]

\* The registrations the model draws from: every callable context-style and
\* with positional arguments, the pure ones also with keyword arguments.
Registrations ==
    { r \in (PureFns \cup CtxFns) \X ArgShapes :
        r[1] \in CtxFns => r[2][2] = {} }

\* Line 122: step.args is not None or step.kwargs is not None
IsBoundOnlyArgs(step) == ~step.args.isNone
IsBound(step) == ~step.args.isNone \/ ~step.kwargs.isNone

\* Lines 124-125: args = step.args or [], kwargs = step.kwargs or {}
ArgsOf(step) == IF step.args.isNone THEN <<>> ELSE step.args.items
KwargsOf(step) == IF step.kwargs.isNone THEN {} ELSE step.kwargs.items

\* Lines 129-138: the dict itself, or a record synthesized from id and name.
Normalize(res) ==
    IF IsDict(res)
    THEN res
    ELSE [t |-> "dict",
          status |-> "created",
          node_id |-> GetAttrStr(res, "id"),
          name |-> GetAttrStr(res, "name"),
          message |-> "Created " \o TypeName(res) \o " node"]

\* context["created_objects"].append(record): KeyError when the key is gone,
\* AttributeError when the value is no list.
AppendCreated(ctx, hp, record) ==
    IF "created_objects" \notin DOMAIN ctx
    THEN [raised |-> TRUE, msg |-> "'created_objects'", heap |-> hp]
    ELSE IF ctx["created_objects"].t # "list"
    THEN [raised |-> TRUE,
          msg |-> "'" \o TypeName(ctx["created_objects"])
                  \o "' object has no attribute 'append'",
          heap |-> hp]
    ELSE [raised |-> FALSE, msg |-> "",
          heap |-> [hp EXCEPT ![ctx["created_objects"].ref] = Append(@, record)]]

\* Lines 153-157
ErrorInfo(name, msg) == [step |-> name, error |-> msg, status |-> "failed"]

\* Lines 160-164
FailedStepResult(name, msg) ==
    [step |-> name,
     result |-> [t |-> "dict", status |-> "failed", error |-> msg,
                 message |-> "Step '" \o name \o "' failed: " \o msg],
     status |-> "failed"]

\* Lines 144-148
SuccessStepResult(name, normalized) ==
    [step |-> name, result |-> normalized, status |-> "success"]

\* The record appended to context["created_objects"] (lines 150 and 166).
CreatedRecord(step_result) ==
    [step |-> step_result.step, result |-> step_result.result,
     status |-> step_result.status]

\* Lines 144-150 for the outcome out of the call and its step result: log the
\* step in the context and hand over what the try block leaves behind.
TryOutcome(step, hp, ex, bound, out, step_result) ==
    LET app == AppendCreated(out.ctx, hp, CreatedRecord(step_result))
    IN  [received |-> IF bound THEN "args" ELSE "context",
         args |-> IF bound THEN ArgsOf(step) ELSE <<>>,
         kwargs |-> IF bound THEN KwargsOf(step) ELSE {},
         called_raised |-> out.raised,
         made |-> out.made,
         ret |-> out.ret,
         wrote |-> out.wrote,
         read |-> out.read,
         raised |-> out.raised \/ app.raised,
         msg |-> IF out.raised THEN out.msg ELSE app.msg,
         step_result |-> step_result,
         context |-> out.ctx,
         references |-> IF "references" \in DOMAIN out THEN out.references
                        ELSE ex.references,
         heap |-> IF out.raised THEN hp ELSE app.heap]

\* Lines 129-148 for the outcome out of the call: normalize the result of a
\* bound call, keep that of a context call, and build the step result.
TryCalled(step, hp, ex, bound, out) ==
    TryOutcome(step, hp, ex, bound, out,
               SuccessStepResult(step.name, IF bound THEN Normalize(out.ret) ELSE out.ret))

\* Lines 120-150, the try block: call the function by the step's convention,
\* normalize, build the step result and log it in the context.
TryBlock(step, ctx, hp, n, ex) ==
    TryCalled(step, hp, ex, IsBound(step),
              IF step.function \in ExampleFns
              THEN CallExample(step.function,
                               IF IsBound(step) THEN ArgsOf(step) ELSE <<"context">>,
                               IF IsBound(step) THEN KwargsOf(step) ELSE {}, ctx, n, ex)
              ELSE IF IsBound(step)
              THEN CallWithArgs(step.function, ArgsOf(step), KwargsOf(step), ctx, n)
              ELSE CallWithContext(step.function, ctx, n))

\* Lines 152-166, the except block: record the error, build the failed step
\* result and log it in the context.  The append of line 166 is not guarded.
ExceptBlock(step, ctx, hp, errs, msg) ==
    LET step_result == FailedStepResult(step.name, msg)
        app == AppendCreated(ctx, hp, CreatedRecord(step_result))
    IN  [errors |-> Append(errs, ErrorInfo(step.name, msg)),
         escaped |-> app.raised,
         exc |-> app.msg,
         step_result |-> step_result,
         heap |-> app.heap]

\* Line 84, for step in self.steps: the position after position k.
SkipIndex(k) == k + 2
NextIndex(k) == k + 1

\* Line 89: if step_result["status"] == "failed": break
NeverBreak(step_result) == FALSE
ShouldBreak(step_result) == step_result.status = "failed"

\* add_step(name, function, *args, **kwargs)
AddStep ==
    /\ pc \in {"idle", "returned", "raised"}
    /\ Len(steps) < MaxSteps
    /\ \E r \in Registrations :
         /\ steps' = Append(steps,
                            WorkflowStep(StepName(Len(steps) + 1), r[1], r[2][1], r[2][2]))
         /\ supplied' = Append(supplied, [args |-> r[2][1], kwargs |-> r[2][2]])
    /\ pc' = "idle"
    /\ i' = 1
    /\ initial_context' = [initial |-> [t |-> "str", s |-> "data"]]
    /\ context' = initial_context'
    /\ heap' = EmptyHeap
    /\ steps_results' = <<>>
    /\ errors' = <<>>
    /\ result' = NoResult
    /\ exc' = NoExc
    /\ calls' = <<>>
    /\ nextObj' = 1
    /\ status' = NoStatus
    /\ ncalls' = 0
    /\ UNCHANGED <<example, serviceVars>>

\* execute(initial_context), lines 76-81: copy the mapping (a shallow copy),
\* make sure the reserved keys exist, start with empty result lists.
Execute ==
    /\ pc \in {"idle", "returned", "raised"}
    /\ \E ic \in InitialContexts :
         /\ initial_context' = ic
         /\ context' = SetDefault(SetDefault(ic, "created_objects", ListV("new_created")),
                                  "errors", ListV("new_errors"))
    /\ heap' = EmptyHeap
    /\ steps_results' = <<>>
    /\ errors' = <<>>
    /\ result' = NoResult
    /\ exc' = NoExc
    /\ calls' = <<>>
    /\ nextObj' = 1
    /\ i' = 1
    /\ pc' = IF Len(steps) = 0 THEN "summarize" ELSE "running"
    /\ status' = [state |-> "running", label |-> "Executing"]
    /\ ncalls' = 1
    /\ UNCHANGED <<steps, supplied, example, serviceVars>>

\* One iteration of the loop of lines 84-90: _execute_single_step on the next
\* step, append its result, break when it failed.
ExecuteStep ==
    /\ pc = "running"
    /\ i <= Len(steps)
    /\ LET step == steps[i]
           try == TryBlock(step, context, heap, nextObj, example)
           exn == ExceptBlock(step, try.context, try.heap, errors, try.msg)
           step_result == IF try.raised THEN exn.step_result ELSE try.step_result
       IN  /\ calls' = Append(calls, [step |-> i, fn |-> step.function,
                                      received |-> try.received,
                                      args |-> try.args,
                                      kwargs |-> try.kwargs,
                                      before |-> context,
                                      raised |-> try.called_raised,
                                      ret |-> try.ret,
                                      wrote |-> try.wrote, read |-> try.read,
                                      after |-> try.context])
           /\ context' = try.context
           /\ example' = [example EXCEPT !.references = try.references]
           /\ nextObj' = IF try.made THEN nextObj + 1 ELSE nextObj
           /\ IF try.raised
              THEN /\ errors' = exn.errors
                   /\ heap' = exn.heap
              ELSE /\ errors' = errors
                   /\ heap' = try.heap
           /\ IF try.raised /\ exn.escaped
              THEN /\ pc' = "raised"
                   /\ exc' = exn.exc
                   /\ UNCHANGED <<steps_results, i>>
              ELSE /\ steps_results' = Append(steps_results, step_result)
                   /\ exc' = exc
                   /\ IF ShouldBreak(step_result) \/ NextIndex(i) > Len(steps)
                      THEN pc' = "summarize" /\ i' = i
                      ELSE pc' = "running" /\ i' = NextIndex(i)
    /\ UNCHANGED <<steps, supplied, initial_context, result, status, ncalls, serviceVars>>

\* Lines 92-103: the summary statistics and the WorkflowResult.
SuccessCount(results) ==
    Cardinality({k \in 1..Len(results) : results[k].status = "success"})

\* execute_with_status, lines 190-205: the status box after execute returned.
StatusUpdate(res) ==
    IF res.error_count = 0
    THEN [state |-> "complete", label |-> "completed successfully"]
    ELSE IF res.success_count > 0
    THEN [state |-> "error", label |-> "partially completed"]
    ELSE [state |-> "error", label |-> "failed"]

\* Lines 92-103, the return of execute, and the status update of
\* execute_with_status (lines 187-205) that wraps it.
Return ==
    /\ pc = "summarize"
    /\ result' = [success_count |-> SuccessCount(steps_results),
                  total_steps |-> Len(steps_results),
                  error_count |-> Len(errors),
                  steps_results |-> steps_results,
                  errors |-> errors]
    /\ status' = StatusUpdate(result')
    /\ pc' = "returned"
    /\ UNCHANGED <<steps, supplied, i, initial_context, context, heap, steps_results, errors,
                   exc, calls, nextObj, ncalls, example, serviceVars>>

\* The caller passes the mapping of the previous call to execute again: the
\* lists the caller put under the reserved keys are still the same objects.
ExecuteAgain ==
    /\ pc \in {"returned", "raised"}
    /\ ncalls = 1
    /\ context' = SetDefault(SetDefault(initial_context, "created_objects",
                                        ListV("new_created")),
                             "errors", ListV("new_errors"))
    /\ heap' = [r \in ListRefs |->
                  IF r \in {"new_created", "new_errors"} THEN <<>> ELSE heap[r]]
    /\ steps_results' = <<>>
    /\ errors' = <<>>
    /\ result' = NoResult
    /\ exc' = NoExc
    /\ calls' = <<>>
    /\ nextObj' = 1
    /\ i' = 1
    /\ pc' = IF Len(steps) = 0 THEN "summarize" ELSE "running"
    /\ status' = [state |-> "running", label |-> "Executing"]
    /\ ncalls' = 2
    /\ UNCHANGED <<steps, supplied, initial_context, example, serviceVars>>

Next == AddStep \/ Execute \/ ExecuteStep \/ Return

Spec == Init /\ [][Next]_vars

\* The engine run a second time on the same initial_context object.
NextRerun == AddStep \/ Execute \/ ExecuteStep \/ Return \/ ExecuteAgain

SpecRerun == Init /\ [][NextRerun]_vars

(***************************************************************************)
(* Properties                                                              *)
(***************************************************************************)

\* The execute call has ended, by returning or by raising.
Ended == pc \in {"returned", "raised"}

\* Step k was added without arguments (context-style).
AddedWithoutArguments(k) == supplied[k].args = <<>> /\ supplied[k].kwargs = {}

\* The call changed what the context holds under "X".
ChangedX(c) == GetX(c.before) # GetX(c.after)

\* The call removed "X" from the context.
RemovedX(c) == "X" \in DOMAIN c.before /\ "X" \notin DOMAIN c.after

\* C1: abort on first failure.  Once the callable of a step has raised, no
\* callable of a later step is invoked in that execute call.
C1_AbortOnFirstFailure ==
    \A j \in 1..Len(calls) :
        calls[j].raised =>
            \A l \in 1..Len(calls) : calls[l].step <= calls[j].step

\* Three steps, the second raised, execute returned: the third never ran.
C1_Witness ==
    /\ pc = "returned"
    /\ Len(steps) = 3
    /\ Len(calls) = 2
    /\ calls[2].step = 2
    /\ calls[2].raised

\* C2: failure counts.  When the callable of the k-th step raised, execute
\* returns total_steps = k, success_count = k - 1 and error_count = 1.
C2_FailureCounts ==
    \A j \in 1..Len(calls) :
        (Ended /\ calls[j].raised) =>
            /\ pc = "returned"
            /\ result.total_steps = calls[j].step
            /\ result.success_count = calls[j].step - 1
            /\ result.error_count = 1

\* C3: registration order.  The callables are invoked in the order the steps
\* were added, each only after the one before returned successfully, and the
\* names in steps_results are a prefix of the registered names.
C3_RegistrationOrder ==
    /\ \A j \in 1..Len(calls) : calls[j].step = j
    /\ \A j \in 2..Len(calls) :
          /\ ~calls[j - 1].raised
          /\ Len(steps_results) >= j - 1
          /\ steps_results[j - 1].status = "success"
    /\ Len(steps_results) <= Len(steps)
    /\ \A k \in 1..Len(steps_results) : steps_results[k].step = steps[k].name
    /\ pc = "returned" =>
          /\ Len(result.steps_results) <= Len(steps)
          /\ \A k \in 1..Len(result.steps_results) :
                result.steps_results[k].step = steps[k].name

\* Three steps ran in order and execute returned.
C3_Witness ==
    /\ pc = "returned"
    /\ Len(steps) = 3
    /\ Len(calls) = 3
    /\ Len(result.steps_results) = 3
    /\ result.steps_results[3].step = StepName(3)

\* C4: fully successful run.  When every registered step returned without
\* raising, execute returns success_count = total_steps = N, error_count = 0,
\* errors = [] and only "success" entries.
C4_FullySuccessfulRun ==
    (/\ Ended
     /\ Len(calls) = Len(steps)
     /\ \A j \in 1..Len(calls) : ~calls[j].raised)
    => /\ pc = "returned"
       /\ result.success_count = Len(steps)
       /\ result.total_steps = Len(steps)
       /\ result.error_count = 0
       /\ result.errors = <<>>
       /\ \A k \in 1..Len(result.steps_results) :
             result.steps_results[k].status = "success"

\* C5: execute never raises.
C5_ExecuteNeverRaises == pc # "raised"

\* C6: when a step failed, its error record is in the context's error log,
\* which has exactly one more record than before (both the caller's list and
\* the list execute creates start empty).
C6_ErrorLoggedInContext ==
    (Len(steps_results) > 0 /\ steps_results[Len(steps_results)].status = "failed")
    => /\ Len(errors) = 1
       /\ Len(heap[context["errors"].ref]) = 1
       /\ heap[context["errors"].ref][1] = errors[1]

\* C7: the calling convention is fixed by what add_step was given.  A step
\* added with a positional or keyword argument is called with exactly those
\* arguments and leaves the context alone; a step added with none is called
\* with the context.
C7_CallingConvention ==
    \A j \in 1..Len(calls) :
        LET k == calls[j].step IN
        IF AddedWithoutArguments(k)
        THEN calls[j].received = "context"
        ELSE /\ calls[j].received = "args"
             /\ calls[j].args = supplied[k].args
             /\ calls[j].kwargs = supplied[k].kwargs
             /\ calls[j].after = calls[j].before

\* One execute call invoked a step added with a keyword argument only, a step
\* added with a positional argument and a context-style step.
C7_Witness ==
    /\ pc = "returned"
    /\ \E a, b, c \in 1..Len(calls) :
          /\ supplied[calls[a].step].args = <<>>
          /\ supplied[calls[a].step].kwargs # {}
          /\ calls[a].received = "args"
          /\ supplied[calls[b].step].args # <<>>
          /\ calls[b].received = "args"
          /\ AddedWithoutArguments(calls[c].step)
          /\ calls[c].received = "context"
          /\ calls[c].wrote # NoneV

\* The list that serves as the created-object log of this execute call.
CreatedRef ==
    IF "created_objects" \in DOMAIN initial_context
       /\ initial_context["created_objects"].t = "list"
    THEN initial_context["created_objects"].ref
    ELSE "new_created"

\* C8: result normalization.  For every successful step the recorded result
\* is the returned dict, or else the record synthesized from id and name, and
\* the created-object log holds the same record.
C8_ResultNormalization ==
    \A k \in 1..Len(steps_results) :
        steps_results[k].status = "success" =>
            /\ steps_results[k].result = Normalize(calls[k].ret)
            /\ \E m \in 1..Len(heap[CreatedRef]) :
                  heap[CreatedRef][m] =
                      [step |-> steps[k].name,
                       result |-> Normalize(calls[k].ret),
                       status |-> "success"]

\* C9: reference threading.  What a context-style step stored under "X" is
\* exactly what a later context-style reader reads under "X", when no step in
\* between changed "X".
C9_ReferenceThreading ==
    \A j, l \in 1..Len(calls) :
        (/\ j < l
         /\ calls[j].received = "context"
         /\ calls[j].wrote # NoneV
         /\ calls[l].received = "context"
         /\ calls[l].fn = "read_X"
         /\ \A m \in (j + 1)..(l - 1) : ~ChangedX(calls[m]))
        => calls[l].read = calls[j].wrote

\* A reader read the object a writer stored two steps earlier.
C9_Witness ==
    /\ pc = "returned"
    /\ Len(calls) = 3
    /\ calls[1].received = "context"
    /\ calls[1].wrote # NoneV
    /\ calls[3].fn = "read_X"
    /\ calls[3].read = calls[1].wrote

\* Step k is a context-style writer of "X".
IsWriter(k) ==
    /\ steps[k].function \in {"write_X", "write_X_fails"}
    /\ AddedWithoutArguments(k)

\* Call c is the call of a context-style reader of "X".
IsReaderCall(c) ==
    /\ steps[c.step].function = "read_X"
    /\ AddedWithoutArguments(c.step)

\* Step k was attempted and did not succeed.
StepFailed(k) ==
    \/ k <= Len(steps_results) /\ steps_results[k].status = "failed"
    \/ pc = "raised" /\ k = Len(calls)

\* When the writer failed, no later step is invoked.
NoCallAfterFailedWriter ==
    \A k \in 1..Len(steps) :
        (IsWriter(k) /\ StepFailed(k)) =>
            \A l \in 1..Len(calls) : calls[l].step <= k

\* C10 as stated: a reader registered after a writer finds "X" in the context
\* whenever it is invoked, and is not invoked when the writer failed.
C10_ReaderFindsReference ==
    /\ \A l \in 1..Len(calls) :
          (IsReaderCall(calls[l]) /\ \E k \in 1..(calls[l].step - 1) : IsWriter(k))
          => "X" \in DOMAIN calls[l].before
    /\ NoCallAfterFailedWriter

\* C10 amended: a reader registered after a writer finds "X" in the context
\* whenever it is invoked and no step that ran between the writer and the
\* reader removed "X"; it is not invoked when the writer failed.
C10_ReaderFindsReferenceUnlessRemoved ==
    /\ \A l \in 1..Len(calls) :
          \A k \in 1..(calls[l].step - 1) :
              (/\ IsReaderCall(calls[l])
               /\ IsWriter(k)
               /\ \A m \in 1..Len(calls) :
                     (k < calls[m].step /\ calls[m].step < calls[l].step)
                     => ~RemovedX(calls[m]))
              => "X" \in DOMAIN calls[l].before
    /\ NoCallAfterFailedWriter

\* A reader ran after a writer and a step in between, and found "X".
C10_Witness ==
    /\ pc = "returned"
    /\ Len(calls) = 3
    /\ IsWriter(1)
    /\ IsReaderCall(calls[3])
    /\ "X" \in DOMAIN calls[3].before
    /\ result.success_count = 3

\* What the caller sees in a mapping: every key with its value, a list by its
\* contents.
CallerView(ctx, h) ==
    [k \in DOMAIN ctx |-> IF ctx[k].t = "list" THEN h[ctx[k].ref] ELSE ctx[k]]

\* C11: execute works on a copy.  After the call the caller's initial_context
\* is equal to what it was before the call, also when the caller put lists
\* under "created_objects" or "errors".
C11_CallerContextUnchanged ==
    Ended => CallerView(initial_context, heap) = CallerView(initial_context, EmptyHeap)

\* The three terminal states of a returned result.
Completed(res) == res.error_count = 0
Failed(res) == res.success_count = 0 /\ res.error_count = 1 /\ res.total_steps = 1
PartiallyFailed(res) == res.success_count >= 1 /\ res.error_count = 1

\* C12: shape of every WorkflowResult returned by execute.  error_count is
\* len(errors) and 0 or 1; success_count + error_count = total_steps =
\* len(steps_results); total_steps is at most the number of registered steps
\* and equal to it when error_count = 0; a "failed" record is the last entry
\* and every entry before it is "success".
C12_ResultShape ==
    pc = "returned" =>
        /\ result.error_count = Len(result.errors)
        /\ result.error_count \in {0, 1}
        /\ result.success_count + result.error_count = result.total_steps
        /\ result.total_steps = Len(result.steps_results)
        /\ result.total_steps = Len(calls)
        /\ result.total_steps <= Len(steps)
        /\ (result.error_count = 0 => result.total_steps = Len(steps))
        /\ \A k \in 1..Len(result.steps_results) :
              /\ result.steps_results[k].status \in {"success", "failed"}
              /\ result.steps_results[k].status = "failed"
                 => /\ k = Len(result.steps_results)
                    /\ \A j \in 1..(k - 1) : result.steps_results[j].status = "success"

\* A result with a failed record after a success, fewer records than
\* registered steps.
C12_Witness ==
    /\ pc = "returned"
    /\ Len(steps) = 3
    /\ result.total_steps = 2
    /\ result.success_count = 1
    /\ result.error_count = 1
    /\ result.steps_results[2].status = "failed"

\* C13: the terminal state of an execution is exactly one of Completed (no
\* step failed), Failed (the first registered step failed) and PartiallyFailed
\* (a later step failed), and the status box shows "complete" for Completed
\* only and "error" for the other two.
C13_TerminalStates ==
    Ended =>
        /\ pc = "returned"
        /\ Completed(result) <=> \A j \in 1..Len(calls) : ~StepFailed(j)
        /\ Failed(result) <=> StepFailed(1)
        /\ PartiallyFailed(result) <=> \E j \in 2..Len(calls) : StepFailed(j)
        /\ \/ Completed(result) /\ ~Failed(result) /\ ~PartiallyFailed(result)
           \/ ~Completed(result) /\ Failed(result) /\ ~PartiallyFailed(result)
           \/ ~Completed(result) /\ ~Failed(result) /\ PartiallyFailed(result)
        /\ status.state = IF Completed(result) THEN "complete" ELSE "error"

\* The stored step list is what add_step built from its arguments.
StepsAsRegistered ==
    \A k \in 1..Len(steps) :
        steps[k] = WorkflowStep(StepName(k), steps[k].function,
                                supplied[k].args, supplied[k].kwargs)

\* C14: no shared mutable state across executions.  When a second execute
\* call starts, nothing the first call wrote is in its context: the context
\* shows what the caller built, the reserved lists execute added are empty,
\* and the registered step list is as add_step left it.
C14_NoSharedState ==
    /\ StepsAsRegistered
    /\ (ncalls = 2 /\ calls = <<>>)
       => CallerView(context, heap) = CallerView(context, EmptyHeap)

(***************************************************************************)
(* src/src/validation.py: the validators of the forms                      *)
(***************************************************************************)

\* A Python str is the sequence of the code points of its characters.
StrV(s) == [t |-> "str", s |-> s]

\* The elements of a list.
Range(seq) == {seq[k] : k \in 1..Len(seq)}

\* The characters of a string constant.
CharsOf(str) == {SubSeq(str, k, k) : k \in 1..Len(str)}

\* ord(c) for the characters the program's own texts are written with: the
\* ASCII characters from space to "_" (32 to 95) and from "a" to "~" (97 to
\* 126), tab, line feed, form feed and carriage return.
AsciiFromSpace == " !\"#$%&'()*+,-./0123456789:;<=>?@ABCDEFGHIJKLMNOPQRSTUVWXYZ[\\]^_"
AsciiFromA == "abcdefghijklmnopqrstuvwxyz{|}~"
Ord ==
    [c \in {"\t", "\n", "\f", "\r"} \cup CharsOf(AsciiFromSpace) \cup CharsOf(AsciiFromA) |->
        CASE c = "\t" -> 9
          [] c = "\n" -> 10
          [] c = "\f" -> 12
          [] c = "\r" -> 13
          [] c \in CharsOf(AsciiFromSpace) ->
               31 + (CHOOSE k \in 1..Len(AsciiFromSpace) : SubSeq(AsciiFromSpace, k, k) = c)
          [] OTHER ->
               96 + (CHOOSE k \in 1..Len(AsciiFromA) : SubSeq(AsciiFromA, k, k) = c)]

\* The str a string constant writes.
Text(str) == [k \in 1..Len(str) |-> Ord[SubSeq(str, k, k)]]

\* str(n) for an int n.
Str(n) == Text(ToString(n))

\* The characters str.strip() removes, those for which str.isspace() holds
\* (Unicode 14.0): U+0009 to U+000D, U+001C to U+0020, U+0085, U+00A0,
\* U+1680, U+2000 to U+200A, U+2028, U+2029, U+202F, U+205F and U+3000.
Whitespace ==
    {9, 10, 11, 12, 13, 28, 29, 30, 31, 32, 133, 160, 5760, 8192, 8193, 8194, 8195, 8196, 8197,
    8198, 8199, 8200, 8201, 8202, 8232, 8233, 8239, 8287, 12288}

\* str.strip(): leading, then trailing whitespace removed.
LStrip(s) ==
    IF \A k \in 1..Len(s) : s[k] \in Whitespace
    THEN <<>>
    ELSE SubSeq(s, CHOOSE k \in 1..Len(s) :
                       /\ s[k] \notin Whitespace
                       /\ \A j \in 1..(k - 1) : s[j] \in Whitespace,
                Len(s))
RStrip(s) ==
    IF \A k \in 1..Len(s) : s[k] \in Whitespace
    THEN <<>>
    ELSE SubSeq(s, 1, CHOOSE k \in 1..Len(s) :
                          /\ s[k] \notin Whitespace
                          /\ \A j \in (k + 1)..Len(s) : s[j] \in Whitespace)
Strip(s) == RStrip(LStrip(s))

\* validate_required_field, lines 36-38.
validate_required_field_unstripped(value, field_name) ==
    IF value = NoneV \/ value.s = <<>>
    THEN StrV(field_name \o Text(" is required."))
    ELSE NoneV
validate_required_field(value, field_name) ==
    IF value = NoneV \/ Strip(value.s) = <<>>
    THEN StrV(field_name \o Text(" is required."))
    ELSE NoneV

\* validate_minimum_count, lines 125-133.
IsNonBlank(item) == Strip(item) # <<>>
validate_minimum_count_unstripped(items, min_count, field_name) ==
    IF Len(items) < min_count
    THEN StrV(Text("At least ") \o Str(min_count) \o Text(" ")
              \o (IF min_count = 1 THEN field_name ELSE field_name \o Text("s"))
              \o Text(" ") \o (IF min_count = 1 THEN Text("is") ELSE Text("are"))
              \o Text(" required."))
    ELSE NoneV
validate_minimum_count(items, min_count, field_name) ==
    LET valid_items == SelectSeq(items, IsNonBlank)
        plural_field == IF min_count = 1 THEN field_name ELSE field_name \o Text("s")
        verb == IF min_count = 1 THEN Text("is") ELSE Text("are")
    IN  IF Len(valid_items) < min_count
        THEN StrV(Text("At least ") \o Str(min_count) \o Text(" ") \o plural_field
                  \o Text(" ") \o verb \o Text(" required."))
        ELSE NoneV

\* All lists of at most n entries of S.
ListsUpTo(S, n) == UNION {[1..k -> S] : k \in 0..n}

\* What a user can type into a text field, and None for a field left unset.
\* The characters are space, tab, form feed, U+3000 (ideographic space), "a" and "b".
FieldValues == {NoneV} \cup {StrV(str) : str \in ListsUpTo({32, 9, 12, 12288, 97, 98}, MaxLen)}

\* The entries of a list-valued field (interface names).
\* <<8195>> is U+2003 (em space).
ItemValues == {Text(""), Text(" "), Text("a"), Text("  "), Text(" a"), Text("a "), Text("aa"),
               Text("\f"), Text("\fa"), <<8195>>}

\* The field names the forms pass to the validators.
FieldNames == {Text("Change number"), Text("Device name"), Text("Data Center Name")}
CountedNames == {Text("interface with a name"), Text("item")}

\* The calls of the validators the model draws from.
RequiredFieldCalls ==
    {[fn |-> "validate_required_field", value |-> value, field_name |-> field_name] :
        value \in FieldValues, field_name \in FieldNames}
MinimumCountCalls ==
    {[fn |-> "validate_minimum_count", items |-> items, min_count |-> min_count,
      field_name |-> field_name] :
        items \in ListsUpTo(ItemValues, MaxItems), min_count \in 0..MaxCount,
        field_name \in CountedNames}

\* The call has returned.
Returned(c) == "result" \in DOMAIN c

InitValidation ==
    /\ EngineInit
    /\ vcall \in RequiredFieldCalls \cup MinimumCountCalls
    /\ svc = NoCall

CallRequiredField ==
    /\ vcall.fn = "validate_required_field"
    /\ ~Returned(vcall)
    /\ vcall' = [fn |-> vcall.fn,
                 value |-> vcall.value,
                 field_name |-> vcall.field_name,
                 result |-> validate_required_field(vcall.value, vcall.field_name)]
    /\ UNCHANGED <<engineVars, svc>>

CallMinimumCount ==
    /\ vcall.fn = "validate_minimum_count"
    /\ ~Returned(vcall)
    /\ vcall' = [fn |-> vcall.fn,
                 items |-> vcall.items,
                 min_count |-> vcall.min_count,
                 field_name |-> vcall.field_name,
                 result |-> validate_minimum_count(vcall.items, vcall.min_count,
                                                   vcall.field_name)]
    /\ UNCHANGED <<engineVars, svc>>

NextValidation == CallRequiredField \/ CallMinimumCount

SpecValidation == InitValidation /\ [][NextValidation]_vars

\* The value has a character that is not whitespace.
HasNonWhitespace(str) == \E k \in 1..Len(str) : str[k] \notin Whitespace

\* C19: validate_required_field(v, f) returns None iff v is not None and
\* contains a non-whitespace character; otherwise it returns "<f> is required.".
C19_RequiredField ==
    (vcall.fn = "validate_required_field" /\ Returned(vcall)) =>
        LET ok == vcall.value # NoneV /\ HasNonWhitespace(vcall.value.s)
        IN  /\ vcall.result = NoneV <=> ok
            /\ ~ok => vcall.result = StrV(vcall.field_name \o Text(" is required."))

\* A whitespace-only value was rejected.
C19_Witness ==
    /\ vcall.fn = "validate_required_field"
    /\ Returned(vcall)
    /\ vcall.value = StrV(Text(" \t"))
    /\ vcall.result = StrV(Text("Change number is required."))

\* The number of entries that are not blank.
NonBlankCount(items) == Cardinality({k \in 1..Len(items) : HasNonWhitespace(items[k])})

\* C20: validate_minimum_count(items, n, f) returns None iff at least n items
\* are non-blank after stripping; otherwise "At least <n> <f>[s] is|are
\* required.", singular (no "s", "is") exactly when n = 1.
C20_MinimumCount ==
    (vcall.fn = "validate_minimum_count" /\ Returned(vcall)) =>
        LET n == vcall.min_count
            f == vcall.field_name
            ok == NonBlankCount(vcall.items) >= n
        IN  /\ vcall.result = NoneV <=> ok
            /\ (~ok /\ n = 1)
               => vcall.result = StrV(Text("At least 1 ") \o f \o Text(" is required."))
            /\ (~ok /\ n # 1)
               => vcall.result = StrV(Text("At least ") \o Str(n) \o Text(" ") \o f
                                      \o Text("s are required."))

\* Blank entries were not counted: one name among three entries, two wanted.
C20_Witness ==
    /\ vcall.fn = "validate_minimum_count"
    /\ Returned(vcall)
    /\ vcall.items = <<Text(" "), Text("a"), Text("")>>
    /\ vcall.min_count = 2
    /\ vcall.result = StrV(Text("At least 2 interface with a names are required."))

(***************************************************************************)
(* src/src/kafka_integration.py, src/src/kafka_events_helper.py and        *)
(* src/src/task_simulator.py: event publishing and task simulation         *)
(***************************************************************************)

\* str.lower(), Unicode 14.0.  An entry <<first, last, step, delta>> of
\* LowerRanges says that the lower-case counterpart of each of the
\* characters first, first + step, ..., last is the character delta further
\* on.  U+0130 alone has a counterpart of two characters.
LowerRanges ==
    << <<65, 90, 1, 32>>, <<192, 214, 1, 32>>, <<216, 222, 1, 32>>, <<256, 302, 2, 1>>,
       <<306, 310, 2, 1>>, <<313, 327, 2, 1>>, <<330, 374, 2, 1>>, <<376, 376, 1, -121>>,
       <<377, 381, 2, 1>>, <<385, 385, 1, 210>>, <<386, 388, 2, 1>>, <<390, 390, 1, 206>>,
       <<391, 391, 1, 1>>, <<393, 394, 1, 205>>, <<395, 395, 1, 1>>, <<398, 398, 1, 79>>,
       <<399, 399, 1, 202>>, <<400, 400, 1, 203>>, <<401, 401, 1, 1>>, <<403, 403, 1, 205>>,
       <<404, 404, 1, 207>>, <<406, 406, 1, 211>>, <<407, 407, 1, 209>>, <<408, 408, 1, 1>>,
       <<412, 412, 1, 211>>, <<413, 413, 1, 213>>, <<415, 415, 1, 214>>, <<416, 420, 2, 1>>,
       <<422, 422, 1, 218>>, <<423, 423, 1, 1>>, <<425, 425, 1, 218>>, <<428, 428, 1, 1>>,
       <<430, 430, 1, 218>>, <<431, 431, 1, 1>>, <<433, 434, 1, 217>>, <<435, 437, 2, 1>>,
       <<439, 439, 1, 219>>, <<440, 440, 1, 1>>, <<444, 444, 1, 1>>, <<452, 452, 1, 2>>,
       <<453, 453, 1, 1>>, <<455, 455, 1, 2>>, <<456, 456, 1, 1>>, <<458, 458, 1, 2>>,
       <<459, 475, 2, 1>>, <<478, 494, 2, 1>>, <<497, 497, 1, 2>>, <<498, 500, 2, 1>>,
       <<502, 502, 1, -97>>, <<503, 503, 1, -56>>, <<504, 542, 2, 1>>, <<544, 544, 1, -130>>,
       <<546, 562, 2, 1>>, <<570, 570, 1, 10795>>, <<571, 571, 1, 1>>, <<573, 573, 1, -163>>,
       <<574, 574, 1, 10792>>, <<577, 577, 1, 1>>, <<579, 579, 1, -195>>, <<580, 580, 1, 69>>,
       <<581, 581, 1, 71>>, <<582, 590, 2, 1>>, <<880, 882, 2, 1>>, <<886, 886, 1, 1>>,
       <<895, 895, 1, 116>>, <<902, 902, 1, 38>>, <<904, 906, 1, 37>>, <<908, 908, 1, 64>>,
       <<910, 911, 1, 63>>, <<913, 929, 1, 32>>, <<931, 939, 1, 32>>, <<975, 975, 1, 8>>,
       <<984, 1006, 2, 1>>, <<1012, 1012, 1, -60>>, <<1015, 1015, 1, 1>>, <<1017, 1017, 1, -7>>,
       <<1018, 1018, 1, 1>>, <<1021, 1023, 1, -130>>, <<1024, 1039, 1, 80>>,
       <<1040, 1071, 1, 32>>, <<1120, 1152, 2, 1>>, <<1162, 1214, 2, 1>>, <<1216, 1216, 1, 15>>,
       <<1217, 1229, 2, 1>>, <<1232, 1326, 2, 1>>, <<1329, 1366, 1, 48>>,
       <<4256, 4293, 1, 7264>>, <<4295, 4295, 1, 7264>>, <<4301, 4301, 1, 7264>>,
       <<5024, 5103, 1, 38864>>, <<5104, 5109, 1, 8>>, <<7312, 7354, 1, -3008>>,
       <<7357, 7359, 1, -3008>>, <<7680, 7828, 2, 1>>, <<7838, 7838, 1, -7615>>,
       <<7840, 7934, 2, 1>>, <<7944, 7951, 1, -8>>, <<7960, 7965, 1, -8>>,
       <<7976, 7983, 1, -8>>, <<7992, 7999, 1, -8>>, <<8008, 8013, 1, -8>>,
       <<8025, 8031, 2, -8>>, <<8040, 8047, 1, -8>>, <<8072, 8079, 1, -8>>,
       <<8088, 8095, 1, -8>>, <<8104, 8111, 1, -8>>, <<8120, 8121, 1, -8>>,
       <<8122, 8123, 1, -74>>, <<8124, 8124, 1, -9>>, <<8136, 8139, 1, -86>>,
       <<8140, 8140, 1, -9>>, <<8152, 8153, 1, -8>>, <<8154, 8155, 1, -100>>,
       <<8168, 8169, 1, -8>>, <<8170, 8171, 1, -112>>, <<8172, 8172, 1, -7>>,
       <<8184, 8185, 1, -128>>, <<8186, 8187, 1, -126>>, <<8188, 8188, 1, -9>>,
       <<8486, 8486, 1, -7517>>, <<8490, 8490, 1, -8383>>, <<8491, 8491, 1, -8262>>,
       <<8498, 8498, 1, 28>>, <<8544, 8559, 1, 16>>, <<8579, 8579, 1, 1>>,
       <<9398, 9423, 1, 26>>, <<11264, 11311, 1, 48>>, <<11360, 11360, 1, 1>>,
       <<11362, 11362, 1, -10743>>, <<11363, 11363, 1, -3814>>, <<11364, 11364, 1, -10727>>,
       <<11367, 11371, 2, 1>>, <<11373, 11373, 1, -10780>>, <<11374, 11374, 1, -10749>>,
       <<11375, 11375, 1, -10783>>, <<11376, 11376, 1, -10782>>, <<11378, 11378, 1, 1>>,
       <<11381, 11381, 1, 1>>, <<11390, 11391, 1, -10815>>, <<11392, 11490, 2, 1>>,
       <<11499, 11501, 2, 1>>, <<11506, 11506, 1, 1>>, <<42560, 42604, 2, 1>>,
       <<42624, 42650, 2, 1>>, <<42786, 42798, 2, 1>>, <<42802, 42862, 2, 1>>,
       <<42873, 42875, 2, 1>>, <<42877, 42877, 1, -35332>>, <<42878, 42886, 2, 1>>,
       <<42891, 42891, 1, 1>>, <<42893, 42893, 1, -42280>>, <<42896, 42898, 2, 1>>,
       <<42902, 42920, 2, 1>>, <<42922, 42922, 1, -42308>>, <<42923, 42923, 1, -42319>>,
       <<42924, 42924, 1, -42315>>, <<42925, 42925, 1, -42305>>, <<42926, 42926, 1, -42308>>,
       <<42928, 42928, 1, -42258>>, <<42929, 42929, 1, -42282>>, <<42930, 42930, 1, -42261>>,
       <<42931, 42931, 1, 928>>, <<42932, 42946, 2, 1>>, <<42948, 42948, 1, -48>>,
       <<42949, 42949, 1, -42307>>, <<42950, 42950, 1, -35384>>, <<42951, 42953, 2, 1>>,
       <<42960, 42960, 1, 1>>, <<42966, 42968, 2, 1>>, <<42997, 42997, 1, 1>>,
       <<65313, 65338, 1, 32>>, <<66560, 66599, 1, 40>>, <<66736, 66771, 1, 40>>,
       <<66928, 66938, 1, 39>>, <<66940, 66954, 1, 39>>, <<66956, 66962, 1, 39>>,
       <<66964, 66965, 1, 39>>, <<68736, 68786, 1, 64>>, <<71840, 71871, 1, 32>>,
       <<93760, 93791, 1, 32>>, <<125184, 125217, 1, 34>> >>
HasLowerIn(r, c) == r[1] <= c /\ c <= r[2] /\ (c - r[1]) % r[3] = 0
UpperCase ==
    UNION {{r[1] + k * r[3] : k \in 0..((r[2] - r[1]) \div r[3])} :
              r \in {LowerRanges[n] : n \in 1..Len(LowerRanges)}}
LowerCase ==
    [c \in UpperCase |->
        c + LowerRanges[CHOOSE n \in 1..Len(LowerRanges) : HasLowerIn(LowerRanges[n], c)][4]]
LowerChar(c) ==
    IF c = 304 THEN <<105, 775>>
    ELSE IF c \in UpperCase THEN <<LowerCase[c]>>
    ELSE <<c>>

\* The cased characters that are not case-ignorable, and the case-ignorable
\* characters, as ranges <<first, last>>: they decide whether a capital
\* sigma ends a word.
CasedRanges ==
    << <<65, 90>>, <<97, 122>>, <<170, 170>>, <<181, 181>>, <<186, 186>>, <<192, 214>>,
       <<216, 246>>, <<248, 442>>, <<444, 447>>, <<452, 659>>, <<661, 687>>, <<880, 883>>,
       <<886, 887>>, <<891, 893>>, <<895, 895>>, <<902, 902>>, <<904, 906>>, <<908, 908>>,
       <<910, 929>>, <<931, 1013>>, <<1015, 1153>>, <<1162, 1327>>, <<1329, 1366>>,
       <<1376, 1416>>, <<4256, 4293>>, <<4295, 4295>>, <<4301, 4301>>, <<4304, 4346>>,
       <<4349, 4351>>, <<5024, 5109>>, <<5112, 5117>>, <<7296, 7304>>, <<7312, 7354>>,
       <<7357, 7359>>, <<7424, 7467>>, <<7531, 7543>>, <<7545, 7578>>, <<7680, 7957>>,
       <<7960, 7965>>, <<7968, 8005>>, <<8008, 8013>>, <<8016, 8023>>, <<8025, 8025>>,
       <<8027, 8027>>, <<8029, 8029>>, <<8031, 8061>>, <<8064, 8116>>, <<8118, 8124>>,
       <<8126, 8126>>, <<8130, 8132>>, <<8134, 8140>>, <<8144, 8147>>, <<8150, 8155>>,
       <<8160, 8172>>, <<8178, 8180>>, <<8182, 8188>>, <<8450, 8450>>, <<8455, 8455>>,
       <<8458, 8467>>, <<8469, 8469>>, <<8473, 8477>>, <<8484, 8484>>, <<8486, 8486>>,
       <<8488, 8488>>, <<8490, 8493>>, <<8495, 8500>>, <<8505, 8505>>, <<8508, 8511>>,
       <<8517, 8521>>, <<8526, 8526>>, <<8544, 8575>>, <<8579, 8580>>, <<9398, 9449>>,
       <<11264, 11387>>, <<11390, 11492>>, <<11499, 11502>>, <<11506, 11507>>, <<11520, 11557>>,
       <<11559, 11559>>, <<11565, 11565>>, <<42560, 42605>>, <<42624, 42651>>, <<42786, 42863>>,
       <<42865, 42887>>, <<42891, 42894>>, <<42896, 42954>>, <<42960, 42961>>, <<42963, 42963>>,
       <<42965, 42969>>, <<42997, 42998>>, <<43002, 43002>>, <<43824, 43866>>, <<43872, 43880>>,
       <<43888, 43967>>, <<64256, 64262>>, <<64275, 64279>>, <<65313, 65338>>, <<65345, 65370>>,
       <<66560, 66639>>, <<66736, 66771>>, <<66776, 66811>>, <<66928, 66938>>, <<66940, 66954>>,
       <<66956, 66962>>, <<66964, 66965>>, <<66967, 66977>>, <<66979, 66993>>, <<66995, 67001>>,
       <<67003, 67004>>, <<68736, 68786>>, <<68800, 68850>>, <<71840, 71903>>, <<93760, 93823>>,
       <<119808, 119892>>, <<119894, 119964>>, <<119966, 119967>>, <<119970, 119970>>,
       <<119973, 119974>>, <<119977, 119980>>, <<119982, 119993>>, <<119995, 119995>>,
       <<119997, 120003>>, <<120005, 120069>>, <<120071, 120074>>, <<120077, 120084>>,
       <<120086, 120092>>, <<120094, 120121>>, <<120123, 120126>>, <<120128, 120132>>,
       <<120134, 120134>>, <<120138, 120144>>, <<120146, 120485>>, <<120488, 120512>>,
       <<120514, 120538>>, <<120540, 120570>>, <<120572, 120596>>, <<120598, 120628>>,
       <<120630, 120654>>, <<120656, 120686>>, <<120688, 120712>>, <<120714, 120744>>,
       <<120746, 120770>>, <<120772, 120779>>, <<122624, 122633>>, <<122635, 122654>>,
       <<125184, 125251>>, <<127280, 127305>>, <<127312, 127337>>, <<127344, 127369>> >>
CaseIgnorableRanges ==
    << <<39, 39>>, <<46, 46>>, <<58, 58>>, <<94, 94>>, <<96, 96>>, <<168, 168>>, <<173, 173>>,
       <<175, 175>>, <<180, 180>>, <<183, 184>>, <<688, 879>>, <<884, 885>>, <<890, 890>>,
       <<900, 901>>, <<903, 903>>, <<1155, 1161>>, <<1369, 1369>>, <<1375, 1375>>,
       <<1425, 1469>>, <<1471, 1471>>, <<1473, 1474>>, <<1476, 1477>>, <<1479, 1479>>,
       <<1524, 1524>>, <<1536, 1541>>, <<1552, 1562>>, <<1564, 1564>>, <<1600, 1600>>,
       <<1611, 1631>>, <<1648, 1648>>, <<1750, 1757>>, <<1759, 1768>>, <<1770, 1773>>,
       <<1807, 1807>>, <<1809, 1809>>, <<1840, 1866>>, <<1958, 1968>>, <<2027, 2037>>,
       <<2042, 2042>>, <<2045, 2045>>, <<2070, 2093>>, <<2137, 2139>>, <<2184, 2184>>,
       <<2192, 2193>>, <<2200, 2207>>, <<2249, 2306>>, <<2362, 2362>>, <<2364, 2364>>,
       <<2369, 2376>>, <<2381, 2381>>, <<2385, 2391>>, <<2402, 2403>>, <<2417, 2417>>,
       <<2433, 2433>>, <<2492, 2492>>, <<2497, 2500>>, <<2509, 2509>>, <<2530, 2531>>,
       <<2558, 2558>>, <<2561, 2562>>, <<2620, 2620>>, <<2625, 2626>>, <<2631, 2632>>,
       <<2635, 2637>>, <<2641, 2641>>, <<2672, 2673>>, <<2677, 2677>>, <<2689, 2690>>,
       <<2748, 2748>>, <<2753, 2757>>, <<2759, 2760>>, <<2765, 2765>>, <<2786, 2787>>,
       <<2810, 2815>>, <<2817, 2817>>, <<2876, 2876>>, <<2879, 2879>>, <<2881, 2884>>,
       <<2893, 2893>>, <<2901, 2902>>, <<2914, 2915>>, <<2946, 2946>>, <<3008, 3008>>,
       <<3021, 3021>>, <<3072, 3072>>, <<3076, 3076>>, <<3132, 3132>>, <<3134, 3136>>,
       <<3142, 3144>>, <<3146, 3149>>, <<3157, 3158>>, <<3170, 3171>>, <<3201, 3201>>,
       <<3260, 3260>>, <<3263, 3263>>, <<3270, 3270>>, <<3276, 3277>>, <<3298, 3299>>,
       <<3328, 3329>>, <<3387, 3388>>, <<3393, 3396>>, <<3405, 3405>>, <<3426, 3427>>,
       <<3457, 3457>>, <<3530, 3530>>, <<3538, 3540>>, <<3542, 3542>>, <<3633, 3633>>,
       <<3636, 3642>>, <<3654, 3662>>, <<3761, 3761>>, <<3764, 3772>>, <<3782, 3782>>,
       <<3784, 3789>>, <<3864, 3865>>, <<3893, 3893>>, <<3895, 3895>>, <<3897, 3897>>,
       <<3953, 3966>>, <<3968, 3972>>, <<3974, 3975>>, <<3981, 3991>>, <<3993, 4028>>,
       <<4038, 4038>>, <<4141, 4144>>, <<4146, 4151>>, <<4153, 4154>>, <<4157, 4158>>,
       <<4184, 4185>>, <<4190, 4192>>, <<4209, 4212>>, <<4226, 4226>>, <<4229, 4230>>,
       <<4237, 4237>>, <<4253, 4253>>, <<4348, 4348>>, <<4957, 4959>>, <<5906, 5908>>,
       <<5938, 5939>>, <<5970, 5971>>, <<6002, 6003>>, <<6068, 6069>>, <<6071, 6077>>,
       <<6086, 6086>>, <<6089, 6099>>, <<6103, 6103>>, <<6109, 6109>>, <<6155, 6159>>,
       <<6211, 6211>>, <<6277, 6278>>, <<6313, 6313>>, <<6432, 6434>>, <<6439, 6440>>,
       <<6450, 6450>>, <<6457, 6459>>, <<6679, 6680>>, <<6683, 6683>>, <<6742, 6742>>,
       <<6744, 6750>>, <<6752, 6752>>, <<6754, 6754>>, <<6757, 6764>>, <<6771, 6780>>,
       <<6783, 6783>>, <<6823, 6823>>, <<6832, 6862>>, <<6912, 6915>>, <<6964, 6964>>,
       <<6966, 6970>>, <<6972, 6972>>, <<6978, 6978>>, <<7019, 7027>>, <<7040, 7041>>,
       <<7074, 7077>>, <<7080, 7081>>, <<7083, 7085>>, <<7142, 7142>>, <<7144, 7145>>,
       <<7149, 7149>>, <<7151, 7153>>, <<7212, 7219>>, <<7222, 7223>>, <<7288, 7293>>,
       <<7376, 7378>>, <<7380, 7392>>, <<7394, 7400>>, <<7405, 7405>>, <<7412, 7412>>,
       <<7416, 7417>>, <<7468, 7530>>, <<7544, 7544>>, <<7579, 7679>>, <<8125, 8125>>,
       <<8127, 8129>>, <<8141, 8143>>, <<8157, 8159>>, <<8173, 8175>>, <<8189, 8190>>,
       <<8203, 8207>>, <<8216, 8217>>, <<8228, 8228>>, <<8231, 8231>>, <<8234, 8238>>,
       <<8288, 8292>>, <<8294, 8303>>, <<8305, 8305>>, <<8319, 8319>>, <<8336, 8348>>,
       <<8400, 8432>>, <<11388, 11389>>, <<11503, 11505>>, <<11631, 11631>>, <<11647, 11647>>,
       <<11744, 11775>>, <<11823, 11823>>, <<12293, 12293>>, <<12330, 12333>>, <<12337, 12341>>,
       <<12347, 12347>>, <<12441, 12446>>, <<12540, 12542>>, <<40981, 40981>>, <<42232, 42237>>,
       <<42508, 42508>>, <<42607, 42610>>, <<42612, 42621>>, <<42623, 42623>>, <<42652, 42655>>,
       <<42736, 42737>>, <<42752, 42785>>, <<42864, 42864>>, <<42888, 42890>>, <<42994, 42996>>,
       <<43000, 43001>>, <<43010, 43010>>, <<43014, 43014>>, <<43019, 43019>>, <<43045, 43046>>,
       <<43052, 43052>>, <<43204, 43205>>, <<43232, 43249>>, <<43263, 43263>>, <<43302, 43309>>,
       <<43335, 43345>>, <<43392, 43394>>, <<43443, 43443>>, <<43446, 43449>>, <<43452, 43453>>,
       <<43471, 43471>>, <<43493, 43494>>, <<43561, 43566>>, <<43569, 43570>>, <<43573, 43574>>,
       <<43587, 43587>>, <<43596, 43596>>, <<43632, 43632>>, <<43644, 43644>>, <<43696, 43696>>,
       <<43698, 43700>>, <<43703, 43704>>, <<43710, 43711>>, <<43713, 43713>>, <<43741, 43741>>,
       <<43756, 43757>>, <<43763, 43764>>, <<43766, 43766>>, <<43867, 43871>>, <<43881, 43883>>,
       <<44005, 44005>>, <<44008, 44008>>, <<44013, 44013>>, <<64286, 64286>>, <<64434, 64450>>,
       <<65024, 65039>>, <<65043, 65043>>, <<65056, 65071>>, <<65106, 65106>>, <<65109, 65109>>,
       <<65279, 65279>>, <<65287, 65287>>, <<65294, 65294>>, <<65306, 65306>>, <<65342, 65342>>,
       <<65344, 65344>>, <<65392, 65392>>, <<65438, 65439>>, <<65507, 65507>>, <<65529, 65531>>,
       <<66045, 66045>>, <<66272, 66272>>, <<66422, 66426>>, <<67456, 67461>>, <<67463, 67504>>,
       <<67506, 67514>>, <<68097, 68099>>, <<68101, 68102>>, <<68108, 68111>>, <<68152, 68154>>,
       <<68159, 68159>>, <<68325, 68326>>, <<68900, 68903>>, <<69291, 69292>>, <<69446, 69456>>,
       <<69506, 69509>>, <<69633, 69633>>, <<69688, 69702>>, <<69744, 69744>>, <<69747, 69748>>,
       <<69759, 69761>>, <<69811, 69814>>, <<69817, 69818>>, <<69821, 69821>>, <<69826, 69826>>,
       <<69837, 69837>>, <<69888, 69890>>, <<69927, 69931>>, <<69933, 69940>>, <<70003, 70003>>,
       <<70016, 70017>>, <<70070, 70078>>, <<70089, 70092>>, <<70095, 70095>>, <<70191, 70193>>,
       <<70196, 70196>>, <<70198, 70199>>, <<70206, 70206>>, <<70367, 70367>>, <<70371, 70378>>,
       <<70400, 70401>>, <<70459, 70460>>, <<70464, 70464>>, <<70502, 70508>>, <<70512, 70516>>,
       <<70712, 70719>>, <<70722, 70724>>, <<70726, 70726>>, <<70750, 70750>>, <<70835, 70840>>,
       <<70842, 70842>>, <<70847, 70848>>, <<70850, 70851>>, <<71090, 71093>>, <<71100, 71101>>,
       <<71103, 71104>>, <<71132, 71133>>, <<71219, 71226>>, <<71229, 71229>>, <<71231, 71232>>,
       <<71339, 71339>>, <<71341, 71341>>, <<71344, 71349>>, <<71351, 71351>>, <<71453, 71455>>,
       <<71458, 71461>>, <<71463, 71467>>, <<71727, 71735>>, <<71737, 71738>>, <<71995, 71996>>,
       <<71998, 71998>>, <<72003, 72003>>, <<72148, 72151>>, <<72154, 72155>>, <<72160, 72160>>,
       <<72193, 72202>>, <<72243, 72248>>, <<72251, 72254>>, <<72263, 72263>>, <<72273, 72278>>,
       <<72281, 72283>>, <<72330, 72342>>, <<72344, 72345>>, <<72752, 72758>>, <<72760, 72765>>,
       <<72767, 72767>>, <<72850, 72871>>, <<72874, 72880>>, <<72882, 72883>>, <<72885, 72886>>,
       <<73009, 73014>>, <<73018, 73018>>, <<73020, 73021>>, <<73023, 73029>>, <<73031, 73031>>,
       <<73104, 73105>>, <<73109, 73109>>, <<73111, 73111>>, <<73459, 73460>>, <<78896, 78904>>,
       <<92912, 92916>>, <<92976, 92982>>, <<92992, 92995>>, <<94031, 94031>>, <<94095, 94111>>,
       <<94176, 94177>>, <<94179, 94180>>, <<110576, 110579>>, <<110581, 110587>>,
       <<110589, 110590>>, <<113821, 113822>>, <<113824, 113827>>, <<118528, 118573>>,
       <<118576, 118598>>, <<119143, 119145>>, <<119155, 119170>>, <<119173, 119179>>,
       <<119210, 119213>>, <<119362, 119364>>, <<121344, 121398>>, <<121403, 121452>>,
       <<121461, 121461>>, <<121476, 121476>>, <<121499, 121503>>, <<121505, 121519>>,
       <<122880, 122886>>, <<122888, 122904>>, <<122907, 122913>>, <<122915, 122916>>,
       <<122918, 122922>>, <<123184, 123197>>, <<123566, 123566>>, <<123628, 123631>>,
       <<125136, 125142>>, <<125252, 125259>>, <<127995, 127999>>, <<917505, 917505>>,
       <<917536, 917631>>, <<917760, 917999>> >>
CasedChars == UNION {r[1]..r[2] : r \in {CasedRanges[n] : n \in 1..Len(CasedRanges)}}
CaseIgnorableChars ==
    UNION {r[1]..r[2] : r \in {CaseIgnorableRanges[n] : n \in 1..Len(CaseIgnorableRanges)}}

\* The sigma at position k follows a cased character and no cased character
\* follows it, case-ignorable characters in between not counted.
IsFinalSigma(str, k) ==
    /\ \E j \in 1..(k - 1) :
         /\ str[j] \in CasedChars
         /\ \A l \in (j + 1)..(k - 1) : str[l] \in CaseIgnorableChars
    /\ ~\E j \in (k + 1)..Len(str) :
         /\ str[j] \in CasedChars
         /\ \A l \in (k + 1)..(j - 1) : str[l] \in CaseIgnorableChars

\* str.lower() from position k on: a capital sigma (U+03A3) that ends a word
\* becomes the final sigma (U+03C2).
RECURSIVE LowerFrom(_, _)
LowerFrom(str, k) ==
    IF k > Len(str) THEN <<>>
    ELSE (IF str[k] = 931 /\ IsFinalSigma(str, k)
          THEN <<962>>
          ELSE LowerChar(str[k])) \o LowerFrom(str, k + 1)
Lower(str) == LowerFrom(str, 1)

\* is_kafka_enabled, line 505; env is the value of KAFKA_ENABLED, None when unset.
is_kafka_enabled(env) ==
    Lower(IF env = NoneV THEN Text("false") ELSE env.s)
        \in {Text("true"), Text("1"), Text("yes"), Text("on")}

\* Values of the environment variable KAFKA_ENABLED.
KafkaEnabledValues ==
    {NoneV} \cup {StrV(Text(str)) : str \in {"", "false", "False", "0", "no", "off",
                                        "true", "True", "TRUE", "1", "yes", "on", "ON"}}
    \cup {StrV(<<65332, 65330, 65333, 65317>>)}

\* ServiceType, lines 54-59.
ServiceTypes == {"device_connection", "datacenter_deployment", "pop_deployment"}

\* What the Kafka producer does when an event is sent: it delivers it, or
\* creating it, send or future.get raises the named exception.
ProducerBehaviours ==
    {"ok", "ConnectionError", "TimeoutError", "ValueError", "OSError", "RuntimeError"}

\* The classes of an exception: its own and its bases.
ExcClasses(e) ==
    CASE e \in {"ConnectionError", "TimeoutError"} -> {e, "OSError", "Exception"}
      [] OTHER -> {e, "Exception"}

\* except (handlers): the exception is caught by the clause.
Caught(e, handlers) == ExcClasses(e) \cap handlers # {}

\* The outcome of a call: it returned value, or raised exc; sent lists the
\* events that reached Kafka during the call.
Returns(value, sent) == [raised |-> FALSE, exc |-> "", value |-> value, sent |-> sent]
Raises(e, sent) == [raised |-> TRUE, exc |-> e, value |-> NoneV, sent |-> sent]

\* EventPublisher.publish_event, lines 240-263.
publish_event(event_type, producer) ==
    IF producer = "ok"
    THEN Returns(TRUE, <<event_type>>)
    ELSE IF Caught(producer, {"ConnectionError", "TimeoutError", "ValueError"})
    THEN Returns(FALSE, <<>>)
    ELSE Raises(producer, <<>>)

\* The publish_* functions that take their data as keyword arguments: only
\* publish_datacenter_deployment_event (lines 359-365); the others take one
\* request object (lines 321, 416, 436, 467).
TakesKeywords == {"datacenter_deployment"}

\* publish_device_connection_event, publish_datacenter_deployment_event,
\* publish_pop_deployment_event, publish_task_status_update and
\* publish_task_completion, called with keyword arguments.
PublishWithKeywords(event_type, producer) ==
    IF event_type \notin TakesKeywords
    THEN Raises("TypeError", <<>>)
    ELSE LET r == publish_event(event_type, producer)
         IN  IF r.raised /\ Caught(r.exc, {"ConnectionError", "TimeoutError",
                                           "ValueError", "OSError"})
             THEN Returns(FALSE, r.sent)
             ELSE r

\* KafkaEventResult, lines 107-113.
KafkaEventResult(success, message, should_execute_task) ==
    [success |-> success, message |-> message, should_execute_task |-> should_execute_task]

\* The outcome of publish_service_event.
PublishOutcome(r, publisher_called, event_result) ==
    [raised |-> r.raised, exc |-> r.exc, sent |-> r.sent,
     publisher_called |-> publisher_called, value |-> event_result]

\* KafkaEventManager.publish_service_event, lines 149-218.
publish_service_event_unconditional(env, service_type, producer) ==
    LET r == PublishWithKeywords(service_type, producer)
    IN  PublishOutcome(r, TRUE,
                       IF r.raised THEN NoneV
                       ELSE KafkaEventResult(r.value, "published", TRUE))
publish_service_event(env, service_type, producer) ==
    IF ~is_kafka_enabled(env)
    THEN PublishOutcome(Returns(TRUE, <<>>), FALSE,
                        KafkaEventResult(TRUE,
                                         "Kafka is disabled - events will not be published",
                                         TRUE))
    ELSE IF service_type \notin ServiceTypes
    THEN PublishOutcome(Returns(FALSE, <<>>), FALSE,
                        KafkaEventResult(FALSE,
                                         "No publisher found for service type: " \o service_type,
                                         FALSE))
    ELSE LET r == PublishWithKeywords(service_type, producer)
         IN  IF r.raised
             THEN IF Caught(r.exc, {"ConnectionError", "TimeoutError", "ValueError"})
                  THEN PublishOutcome(Returns(FALSE, r.sent), TRUE,
                                      KafkaEventResult(FALSE,
                                                       "Kafka event publishing failed: " \o r.exc,
                                                       TRUE))
                  ELSE PublishOutcome(r, TRUE, NoneV)
             ELSE IF r.value
             THEN PublishOutcome(r, TRUE,
                                 KafkaEventResult(TRUE,
                                                  "Event successfully published to Kafka",
                                                  TRUE))
             ELSE PublishOutcome(r, TRUE,
                                 KafkaEventResult(FALSE,
                                                  "failed to publish event to Kafka",
                                                  TRUE))

\* A step of the list handed to simulate_task_execution: whether the dict has
\* a "name", and whether the failure test of line 86 (failure_chance against
\* the clock) comes out true for it.
TaskStep(has_name, fails) == [has_name |-> has_name, fails |-> fails]

\* The events of the task simulator.
StatusEvent(task_status, progress_percentage) ==
    [type |-> "task_status_update", status |-> task_status,
     progress |-> progress_percentage]
CompletionEvent(completion_status) ==
    [type |-> "task_completion", status |-> completion_status]

\* What a publishing call of the simulator leaves behind, given the outcome r
\* of the publisher: the exception, or the events on the topic.
Published(r, event) ==
    IF r.raised
    THEN Raises(r.exc, <<>>)
    ELSE Returns(NoneV, [k \in 1..Len(r.sent) |-> event])

\* TaskSimulator._publish_status_update, lines 157-166, and
\* TaskSimulator._publish_completion_event, lines 176-186: the publisher is
\* called with keyword arguments.
PublishFromSimulator(env, producer, event) ==
    IF ~is_kafka_enabled(env)
    THEN Returns(NoneV, <<>>)
    ELSE Published(PublishWithKeywords(event.type, producer), event)

\* Two calls one after the other: the second is made only if the first
\* returned.
InSequence(r1, r2) ==
    IF r1.raised THEN r1
    ELSE IF r2.raised THEN Raises(r2.exc, r1.sent \o r2.sent)
    ELSE Returns(NoneV, r1.sent \o r2.sent)

\* Two publishing calls one after the other.
PublishBoth(env, producer, first, second) ==
    InSequence(PublishFromSimulator(env, producer, first),
               PublishFromSimulator(env, producer, second))

\* (x * 2^e) % n, for 0 <= x < n.
RECURSIVE ShiftMod(_, _, _)
ShiftMod(x, e, n) == IF e = 0 THEN x ELSE ShiftMod((2 * x) % n, e - 1, n)

\* The a with 2^(-a) <= i / n < 2^(1 - a), for 0 < i < n.
RECURSIVE BinaryPlaces(_, _)
BinaryPlaces(index, n) == IF 2 * index >= n THEN 1 ELSE 1 + BinaryPlaces(2 * index, n)

\* The p with 2^p <= m < 2^(p + 1), for 0 < m < 128.
BinaryExponent(m) == CHOOSE p \in 0..6 : 2^p <= m /\ m < 2^(p + 1)

\* (i / total_steps) * 100 in double-precision floating point is less than
\* m, where 0 < i < total_steps and m = 100 * i / total_steps is a whole
\* number.  The quotient i / total_steps is rounded to 53 significant bits:
\* it keeps 52 + a binary places, and r is what division leaves beyond them
\* (r is never total_steps / 2 for total_steps < 2^31, so no tie occurs).
\* Rounded up or exact, the quotient times 100 is at least m.  Rounded down,
\* it is below m by 100 * r / (total_steps * 2^(52 + a)), and the product
\* rounds back to m unless that is more than half the distance from m to the
\* double before it, which is 2^(p - 52), or 2^(p - 53) when m = 2^p.
ProductBelow(index, total_steps, m) ==
    LET a == BinaryPlaces(index, total_steps)
        r == ShiftMod(index, 52 + a, total_steps)
        p == BinaryExponent(m)
        distance == IF m = 2^p THEN 2^(p + a - 1) ELSE 2^(p + a)
    IN  /\ r # 0
        /\ 2 * r < total_steps
        /\ 200 * r > distance * total_steps

\* int((i / total_steps) * 100), line 70, for the step at position k
\* (i = k - 1): float division, float product, truncation.  When
\* 100 * i / total_steps is no whole number the product is too far from one
\* for rounding to change its integer part.
ProgressPercentage(k, total_steps) ==
    LET index == k - 1
        exact == (100 * index) \div total_steps
    IN  IF index > 0 /\ (100 * index) % total_steps = 0 /\ ProductBelow(index, total_steps, exact)
        THEN exact - 1
        ELSE exact

\* Lines 90-105: the step failed, the failure is published and the loop is
\* left by return.
StepFailure(sent, failed) ==
    [how |-> IF failed.raised THEN "raised" ELSE "return",
     exc |-> failed.exc,
     sent |-> sent \o failed.sent]

\* The loop of lines 64-105 from position k on, sent being the events
\* published so far.  It ends by running out of steps ("else"), by the return
\* of line 105 ("return"), or by an exception.
RECURSIVE SimulateSteps(_, _, _, _, _)
RECURSIVE SimulateStep(_, _, _, _, _, _)
SimulateSteps(env, producer, task_steps, k, sent) ==
    IF k > Len(task_steps)
    THEN [how |-> "else", exc |-> "", sent |-> sent]
    ELSE IF ~task_steps[k].has_name
    THEN [how |-> "raised", exc |-> "KeyError", sent |-> sent]
    ELSE SimulateStep(env, producer, task_steps, k, sent,
                      PublishFromSimulator(
                          env, producer,
                          StatusEvent("in_progress",
                                      ProgressPercentage(k, Len(task_steps)))))

\* Lines 72-105, one pass of the loop after its status update (started).
SimulateStep(env, producer, task_steps, k, sent, started) ==
    IF started.raised
    THEN [how |-> "raised", exc |-> started.exc, sent |-> sent \o started.sent]
    ELSE IF task_steps[k].fails
    THEN StepFailure(sent \o started.sent,
                     PublishBoth(env, producer,
                                 StatusEvent("failed",
                                             ProgressPercentage(k, Len(task_steps))),
                                 CompletionEvent("failed")))
    ELSE SimulateSteps(env, producer, task_steps, k + 1, sent \o started.sent)

\* Lines 55-146 given the outcomes of the initial status update, of the loop,
\* of the except clause's two events and of the two events of completion.
SimulationOutcome(initial, loop, handled, completed) ==
    IF initial.raised
    THEN Raises(initial.exc, initial.sent)
    ELSE IF loop.how = "return"
    THEN Returns(FALSE, initial.sent \o loop.sent)
    ELSE IF loop.how = "raised" /\ Caught(loop.exc, {"OSError", "ValueError", "KeyError"})
    THEN (IF handled.raised
          THEN Raises(handled.exc, initial.sent \o loop.sent \o handled.sent)
          ELSE Returns(FALSE, initial.sent \o loop.sent \o handled.sent))
    ELSE IF loop.how = "raised"
    THEN Raises(loop.exc, initial.sent \o loop.sent)
    ELSE IF completed.raised
    THEN Raises(completed.exc, initial.sent \o loop.sent \o completed.sent)
    ELSE Returns(TRUE, initial.sent \o loop.sent \o completed.sent)

\* TaskSimulator.simulate_task_execution, lines 45-146.
simulate_task_execution(env, producer, task_steps) ==
    IF ~is_kafka_enabled(env)
    THEN Returns(TRUE, <<>>)
    ELSE SimulationOutcome(
             PublishFromSimulator(env, producer, StatusEvent("in_progress", 0)),
             SimulateSteps(env, producer, task_steps, 1, <<>>),
             PublishBoth(env, producer, StatusEvent("failed", 0),
                         CompletionEvent("failed")),
             PublishBoth(env, producer, StatusEvent("completed", 100),
                         CompletionEvent("completed")))

\* The step lists of simulate_device_connection_task (lines 199-207),
\* simulate_datacenter_deployment_task (lines 222-232) and
\* simulate_pop_deployment_task (lines 247-256): every step has a name and no
\* failure_chance.
DeviceConnectionStepCount == 7
DatacenterDeploymentStepCount == 9
PopDeploymentStepCount == 8
ServiceTaskSteps(service_type) ==
    [k \in 1..(CASE service_type = "device_connection" -> DeviceConnectionStepCount
                 [] service_type = "datacenter_deployment" -> DatacenterDeploymentStepCount
                 [] OTHER -> PopDeploymentStepCount) |-> TaskStep(TRUE, FALSE)]

\* KafkaEventManager.execute_task_simulation, lines 237-268.
execute_task_simulation(env, service_type, producer) ==
    IF service_type \notin ServiceTypes
    THEN Returns(FALSE, <<>>)
    ELSE LET r == simulate_task_execution(env, producer, ServiceTaskSteps(service_type))
         IN  IF r.raised /\ Caught(r.exc, {"ConnectionError", "TimeoutError", "ValueError"})
             THEN Returns(FALSE, r.sent)
             ELSE r

\* KafkaEventManager.handle_service_workflow, lines 288-312.
handle_service_workflow(env, service_type, producer, has_callback) ==
    LET ev == publish_service_event(env, service_type, producer)
    IN  IF ev.raised
        THEN [raised |-> TRUE, exc |-> ev.exc, sent |-> ev.sent,
              publisher_called |-> ev.publisher_called,
              callback_ran |-> FALSE, task_ran |-> FALSE, task_success |-> FALSE]
        ELSE IF ~ev.value.should_execute_task
        THEN [raised |-> FALSE, exc |-> "", sent |-> ev.sent,
              publisher_called |-> ev.publisher_called,
              callback_ran |-> has_callback, task_ran |-> FALSE, task_success |-> FALSE]
        ELSE LET t == execute_task_simulation(env, service_type, producer)
             IN  [raised |-> t.raised, exc |-> t.exc, sent |-> ev.sent \o t.sent,
                  publisher_called |-> ev.publisher_called,
                  callback_ran |-> has_callback, task_ran |-> TRUE,
                  task_success |-> ~t.raised /\ t.value]

\* The calls the model draws from.
WorkflowCalls ==
    {[op |-> "handle_service_workflow", env |-> env, service_type |-> service_type,
      producer |-> producer, has_callback |-> has_callback] :
        env \in KafkaEnabledValues, service_type \in ServiceTypes,
        producer \in ProducerBehaviours, has_callback \in BOOLEAN}
PublishCalls ==
    {[op |-> "publish_service_event", env |-> env, service_type |-> service_type,
      producer |-> producer] :
        env \in KafkaEnabledValues, service_type \in ServiceTypes,
        producer \in ProducerBehaviours}
TaskStepLists ==
    ListsUpTo({TaskStep(TRUE, FALSE), TaskStep(TRUE, TRUE), TaskStep(FALSE, FALSE)}, MaxItems)
SimulateCalls ==
    {[op |-> "simulate_task_execution", env |-> env, producer |-> producer,
      steps |-> task_steps] :
        env \in KafkaEnabledValues, producer \in ProducerBehaviours,
        task_steps \in TaskStepLists}

\* The call has finished: it returned or raised.
Finished(c) == "out" \in DOMAIN c

InitKafka ==
    /\ EngineInit
    /\ vcall = NoCall
    /\ svc \in WorkflowCalls \cup PublishCalls \cup SimulateCalls

\* Where the producer raises its exception: when it is created or in send
\* (line 248), or in future.get (line 251), after the event was handed over.
RaisedIn == {"send", "future.get"}

\* publish_event blocks in future.get(timeout=10), line 251 of
\* kafka_integration.py: Kafka is enabled, the publisher of the service type
\* accepts the keyword arguments it is called with (kafka_events_helper.py
\* lines 164-199), the event was handed to the producer and the producer did
\* not raise before.
BlocksInGet(env, service_type, producer, raised_in) ==
    /\ is_kafka_enabled(env)
    /\ service_type \in ServiceTypes
    /\ service_type \in TakesKeywords
    /\ producer = "ok" \/ raised_in = "future.get"

\* The call waits in future.get.
WaitsInGet(c) == "at" \in DOMAIN c /\ ~Finished(c)

\* handle_service_workflow up to the wait in future.get, or to its end when
\* nothing is handed to the producer: while it waits the publisher was
\* called, and neither the callback nor the task simulation has run.
HandleServiceWorkflow ==
    /\ svc.op = "handle_service_workflow"
    /\ ~Finished(svc)
    /\ ~WaitsInGet(svc)
    /\ \E raised_in \in RaisedIn :
          svc' = IF BlocksInGet(svc.env, svc.service_type, svc.producer, raised_in)
                 THEN [op |-> svc.op, env |-> svc.env, service_type |-> svc.service_type,
                       producer |-> svc.producer, has_callback |-> svc.has_callback,
                       at |-> "future.get", publisher_called |-> TRUE,
                       callback_ran |-> FALSE, task_ran |-> FALSE]
                 ELSE [op |-> svc.op, env |-> svc.env, service_type |-> svc.service_type,
                       producer |-> svc.producer, has_callback |-> svc.has_callback,
                       out |-> handle_service_workflow(svc.env, svc.service_type,
                                                       svc.producer, svc.has_callback)]
    /\ UNCHANGED <<engineVars, vcall>>

\* future.get returns or raises, and handle_service_workflow runs to its end:
\* the status message, the callback and the task simulation (lines 291-312).
ServiceWorkflowResumes ==
    /\ svc.op = "handle_service_workflow"
    /\ WaitsInGet(svc)
    /\ svc' = [op |-> svc.op, env |-> svc.env, service_type |-> svc.service_type,
              producer |-> svc.producer, has_callback |-> svc.has_callback,
              out |-> handle_service_workflow(svc.env, svc.service_type, svc.producer,
                                              svc.has_callback)]
    /\ UNCHANGED <<engineVars, vcall>>

\* publish_service_event up to the wait in future.get, or to its end when
\* nothing is handed to the producer.
PublishServiceEvent ==
    /\ svc.op = "publish_service_event"
    /\ ~Finished(svc)
    /\ ~WaitsInGet(svc)
    /\ \E raised_in \in RaisedIn :
          svc' = IF BlocksInGet(svc.env, svc.service_type, svc.producer, raised_in)
                 THEN [op |-> svc.op, env |-> svc.env, service_type |-> svc.service_type,
                       producer |-> svc.producer, at |-> "future.get",
                       publisher_called |-> TRUE]
                 ELSE [op |-> svc.op, env |-> svc.env, service_type |-> svc.service_type,
                       producer |-> svc.producer,
                       out |-> publish_service_event(svc.env, svc.service_type,
                                                     svc.producer)]
    /\ UNCHANGED <<engineVars, vcall>>

\* future.get returns or raises, and publish_service_event returns its
\* KafkaEventResult (lines 201-218).
ServiceEventResumes ==
    /\ svc.op = "publish_service_event"
    /\ WaitsInGet(svc)
    /\ svc' = [op |-> svc.op, env |-> svc.env, service_type |-> svc.service_type,
              producer |-> svc.producer,
              out |-> publish_service_event(svc.env, svc.service_type, svc.producer)]
    /\ UNCHANGED <<engineVars, vcall>>

\* simulate_task_execution.  It has no wait that a run reaches: with Kafka
\* disabled it returns at line 48, with Kafka enabled the status update of
\* line 55 raises before the first time.sleep (line 83).
SimulateTaskExecution ==
    /\ svc.op = "simulate_task_execution"
    /\ ~Finished(svc)
    /\ svc' = [op |-> svc.op, env |-> svc.env, producer |-> svc.producer,
              steps |-> svc.steps,
              out |-> simulate_task_execution(svc.env, svc.producer, svc.steps)]
    /\ UNCHANGED <<engineVars, vcall>>

NextKafka ==
    \/ HandleServiceWorkflow
    \/ ServiceWorkflowResumes
    \/ PublishServiceEvent
    \/ ServiceEventResumes
    \/ SimulateTaskExecution

SpecKafka == InitKafka /\ [][NextKafka]_vars

\* C16: a publish failure never blocks a submission.  Whatever the publisher
\* does, handle_service_workflow raises nothing, runs the success callback it
\* was given and executes the task simulation.
C16_PublishFailureNeverBlocks ==
    (svc.op = "handle_service_workflow" /\ Finished(svc)) =>
        /\ ~svc.out.raised
        /\ svc.has_callback => svc.out.callback_ran
        /\ svc.out.task_ran

\* The KAFKA_ENABLED values that switch Kafka on, whatever their case.
SwitchedOn(env) ==
    env # NoneV /\ env.s \in {Text("true"), Text("True"), Text("TRUE"), Text("1"), Text("yes"),
                              Text("on"), Text("ON")}

\* C17: with the Kafka flag disabled, publish_service_event calls no
\* publisher and returns success = True with should_execute_task = True, and
\* simulate_task_execution returns True; neither sends an event.
C17_DisabledPublishesNothing ==
    (Finished(svc) /\ ~SwitchedOn(svc.env)) =>
        /\ svc.op = "publish_service_event"
           => /\ ~svc.out.raised
              /\ ~svc.out.publisher_called
              /\ svc.out.value.success
              /\ svc.out.value.should_execute_task
              /\ svc.out.sent = <<>>
        /\ svc.op = "simulate_task_execution"
           => /\ ~svc.out.raised
              /\ svc.out.value = TRUE
              /\ svc.out.sent = <<>>

\* publish_service_event returned with the flag set to "False" and a working
\* producer.
C17_Witness ==
    /\ svc.op = "publish_service_event"
    /\ Finished(svc)
    /\ svc.env = StrV(Text("False"))
    /\ svc.producer = "ok"
    /\ svc.out.value.success
    /\ svc.out.sent = <<>>

\* A run of simulate_task_execution with Kafka enabled has ended.
SimulationEnded ==
    svc.op = "simulate_task_execution" /\ Finished(svc) /\ SwitchedOn(svc.env)

\* With Kafka enabled the initial status update of line 55 raises TypeError:
\* _publish_status_update calls publish_task_status_update with keyword
\* arguments (lines 158-166), which takes one TaskStatusRequest.  The run
\* ends there, before the try block of line 63, without an event sent.
EnabledSimulationRaises ==
    SimulationEnded =>
        /\ svc.out.raised
        /\ svc.out.exc = "TypeError"
        /\ svc.out.sent = <<>>

(***************************************************************************)
(* src/src/utils.py and src/src/infrahub.py: the option lookups            *)
(***************************************************************************)

\* What the backend does with a query: it answers, or the client raises the
\* named exception.
BackendErrors == {"ConnectionError", "RuntimeError", "ValueError", "KeyError"}

\* A node as client.filters returns it.
Node(n) == [display_label |-> "Label " \o ToString(n), id |-> "id-" \o ToString(n)]

\* The answers of client.filters: a list of nodes or an exception.
FilterAnswers ==
    {[raises |-> "", nodes |-> nodes] : nodes \in {<<>>, <<Node(1)>>, <<Node(1), Node(2)>>}}
    \cup {[raises |-> e, nodes |-> <<>>] : e \in BackendErrors}

\* An attribute of a schema: its name and its choices, None or a list of
\* dicts.
Attribute(name, choices) == [name |-> name, choices |-> choices]
Choices(items) == [t |-> "list", items |-> items]

\* A choice of an attribute: a dict with the keys "name" and "label", and one
\* that has no "name".
Choice(name) == [name |-> name, label |-> "The " \o name]
Unnamed == [label |-> "The unnamed"]

\* The answers of client.schema.get: a schema, None or an exception.
SchemaAnswers ==
    {[raises |-> "", found |-> TRUE, attributes |-> attributes] :
        attributes \in {<<>>,
                        <<Attribute("strategy", NoneV)>>,
                        <<Attribute("name", Choices(<<>>)),
                          Attribute("strategy", Choices(<<Choice("ebgp"), Choice("ospf")>>))>>,
                        <<Attribute("name", Choices(<<>>))>>,
                        <<Attribute("strategy", Choices(<<Choice("only")>>)),
                          Attribute("strategy", NoneV)>>,
                        <<Attribute("strategy", Choices(<<Choice("ebgp"), Unnamed>>))>>}}
    \cup {[raises |-> "", found |-> FALSE, attributes |-> <<>>]}
    \cup {[raises |-> e, found |-> FALSE, attributes |-> <<>>] : e \in BackendErrors}

\* get_client, lines 35-44 of infrahub.py: address is INFRAHUB_ADDRESS.
get_client(address) ==
    IF address = NoneV \/ address.s = <<>>
    THEN Raises("ConnectionError", <<>>)
    ELSE Returns("client", <<>>)

\* select_options, lines 48-64 of utils.py.
select_options(address, answer) ==
    LET c == get_client(address)
        r == IF c.raised THEN c
             ELSE IF answer.raises # "" THEN Raises(answer.raises, <<>>)
             ELSE Returns([k \in 1..Len(answer.nodes) |->
                             [label |-> answer.nodes[k].display_label,
                              id |-> answer.nodes[k].id]], <<>>)
    IN  IF r.raised /\ Caught(r.exc, {"RuntimeError", "ConnectionError"})
        THEN Returns(<<>>, <<>>)
        ELSE r

\* Line 169: the names of the choices, [] when choices is None or empty; a
\* choice without the key "name" raises KeyError.
ChoiceNames(choices) ==
    IF choices.t = "None" \/ choices.items = <<>>
    THEN Returns(<<>>, <<>>)
    ELSE IF \E k \in 1..Len(choices.items) : "name" \notin DOMAIN choices.items[k]
    THEN Raises("KeyError", <<>>)
    ELSE Returns([k \in 1..Len(choices.items) |-> choices.items[k].name], <<>>)

\* get_dropdown_options, lines 151-175 of infrahub.py.
get_dropdown_options(address, answer, attribute_name) ==
    LET c == get_client(address)
        matching == {k \in 1..Len(answer.attributes) :
                        answer.attributes[k].name = attribute_name}
        inner ==
            IF answer.raises # "" THEN Raises(answer.raises, <<>>)
            ELSE IF ~answer.found THEN Raises("ValueError", <<>>)
            ELSE IF matching = {} THEN Raises("AttributeNotFoundError", <<>>)
            ELSE ChoiceNames(answer.attributes[CHOOSE k \in matching :
                                                   \A l \in matching : k <= l].choices)
    IN  IF c.raised THEN c
        ELSE IF inner.raised /\ inner.exc # "AttributeNotFoundError"
        THEN Raises("ValueError", <<>>)
        ELSE inner

\* dropdown_options, lines 74-78 of utils.py.
dropdown_options(address, answer, attribute_name) ==
    LET r == get_dropdown_options(address, answer, attribute_name)
    IN  IF r.raised /\ Caught(r.exc, {"RuntimeError", "ConnectionError"})
        THEN Returns(<<>>, <<>>)
        ELSE r

\* Values of the environment variable INFRAHUB_ADDRESS.
Addresses == {NoneV, StrV(Text("")), StrV(Text("http://infrahub:8000"))}

\* The lookups the model draws from.
SelectCalls ==
    {[op |-> "select_options", address |-> address, answer |-> answer] :
        address \in Addresses, answer \in FilterAnswers}
DropdownCalls ==
    {[op |-> "dropdown_options", address |-> address, answer |-> answer,
      attribute_name |-> attribute_name] :
        address \in Addresses, answer \in SchemaAnswers,
        attribute_name \in {"strategy", "name"}}

InitLookup ==
    /\ EngineInit
    /\ vcall = NoCall
    /\ svc \in SelectCalls \cup DropdownCalls

SelectOptions ==
    /\ svc.op = "select_options"
    /\ ~Finished(svc)
    /\ svc' = [op |-> svc.op, address |-> svc.address, answer |-> svc.answer,
               out |-> select_options(svc.address, svc.answer)]
    /\ UNCHANGED <<engineVars, vcall>>

DropdownOptions ==
    /\ svc.op = "dropdown_options"
    /\ ~Finished(svc)
    /\ svc' = [op |-> svc.op, address |-> svc.address, answer |-> svc.answer,
               attribute_name |-> svc.attribute_name,
               out |-> dropdown_options(svc.address, svc.answer, svc.attribute_name)]
    /\ UNCHANGED <<engineVars, vcall>>

NextLookup == SelectOptions \/ DropdownOptions

SpecLookup == InitLookup /\ [][NextLookup]_vars

\* The lookup met a failure: no backend address, an exception of the client,
\* no schema for the kind, or no attribute of the requested name.
LookupFailed(c) ==
    \/ c.address = NoneV
    \/ c.address = StrV(Text(""))
    \/ c.answer.raises # ""
    \/ /\ c.op = "dropdown_options"
       /\ \/ ~c.answer.found
          \/ \A k \in 1..Len(c.answer.attributes) :
                c.answer.attributes[k].name # c.attribute_name

\* C18: lookup failures are downgraded, never raised.  Whatever the failure,
\* select_options and dropdown_options return an empty option list.
C18_LookupFailuresDowngraded ==
    (svc.op \in {"select_options", "dropdown_options"} /\ Finished(svc) /\ LookupFailed(svc))
    => /\ ~svc.out.raised
       /\ svc.out.value = <<>>

(***************************************************************************)
(* src/src/validation.py: the other validators the forms call              *)
(***************************************************************************)

\* sep.join(seq)
RECURSIVE Join(_, _)
Join(seq, sep) ==
    IF Len(seq) = 0 THEN <<>>
    ELSE IF Len(seq) = 1 THEN seq[1]
    ELSE seq[1] \o sep \o Join(Tail(seq), sep)

\* str.split(sep) for a separator of one character.
RECURSIVE Split(_, _)
Split(str, sep) ==
    LET at == {k \in 1..Len(str) : str[k] = sep}
    IN  IF at = {} THEN <<str>>
        ELSE LET k == CHOOSE k \in at : \A l \in at : k <= l
             IN  <<SubSeq(str, 1, k - 1)>> \o Split(SubSeq(str, k + 1, Len(str)), sep)

\* a < b for two strs: the first character that differs decides, by code
\* point; a proper prefix is less.
RECURSIVE StrLess(_, _)
StrLess(a, b) ==
    IF b = <<>> THEN FALSE
    ELSE IF a = <<>> THEN TRUE
    ELSE IF a[1] = b[1]
    THEN StrLess(SubSeq(a, 2, Len(a)), SubSeq(b, 2, Len(b)))
    ELSE a[1] < b[1]

\* sorted(S) for a collection of distinct strings.
RECURSIVE Sorted(_)
Sorted(S) ==
    IF S = {} THEN <<>>
    ELSE LET least == CHOOSE a \in S : \A b \in S \ {a} : StrLess(a, b)
         IN  <<least>> \o Sorted(S \ {least})

\* The number of occurrences of x in seq.
Count(seq, x) == Cardinality({k \in 1..Len(seq) : seq[k] = x})

\* The distinct elements of seq in the order of their first occurrence
\* (the keys of a dict filled from seq).
RECURSIVE Keys(_)
Keys(seq) ==
    IF Len(seq) = 0 THEN <<>>
    ELSE LET front == SubSeq(seq, 1, Len(seq) - 1)
             last == seq[Len(seq)]
         IN  IF last \in Range(front) THEN Keys(front) ELSE Append(Keys(front), last)

\* [f(x) for x in seq]
StripAll(seq) == [k \in 1..Len(seq) |-> Strip(seq[k])]

\* validate_required_selection, lines 61-68.
validate_required_selection_strict(options, selected_value, field_name) ==
    IF selected_value = NoneV \/ selected_value.s = <<>> \/ selected_value.s \notin Range(options)
    THEN StrV(field_name \o Text(" is required."))
    ELSE NoneV
validate_required_selection(options, selected_value, field_name) ==
    IF Len(options) = 0 THEN NoneV
    ELSE IF selected_value = NoneV \/ selected_value.s = <<>> \/ selected_value.s \notin Range(options)
    THEN StrV(field_name \o Text(" is required."))
    ELSE NoneV

\* validate_unique_names, lines 88-101.
validate_unique_names_unsorted(names, field_name) ==
    LET names_clean == StripAll(SelectSeq(names, IsNonBlank))
        repeated(name) == Count(names_clean, name) > 1
        plural_field == IF Len(field_name) > 0
                           /\ field_name[Len(field_name)] = Ord["s"]
                        THEN field_name ELSE field_name \o Text("s")
    IN  IF \E name \in Range(names_clean) : repeated(name)
        THEN StrV(plural_field \o Text(" must be unique. Duplicates found: ")
                  \o Join(SelectSeq(Keys(names_clean), repeated), Text(", ")))
        ELSE NoneV
validate_unique_names(names, field_name) ==
    LET names_clean == StripAll(SelectSeq(names, IsNonBlank))
        duplicates == {name \in Range(names_clean) : Count(names_clean, name) > 1}
        plural_field == IF Len(field_name) > 0
                           /\ field_name[Len(field_name)] = Ord["s"]
                        THEN field_name ELSE field_name \o Text("s")
    IN  IF duplicates # {}
        THEN StrV(plural_field \o Text(" must be unique. Duplicates found: ")
                  \o Join(Sorted(duplicates), Text(", ")))
        ELSE NoneV

\* MIN_VPC_GROUP_MEMBERS, line 14.
MIN_VPC_GROUP_MEMBERS == 2

\* validate_vpc_groups, lines 175-189.
validate_vpc_groups(vpcs, vpc_groups) ==
    IF Len(vpcs) # Len(vpc_groups)
    THEN Raises("ValueError", <<>>)
    ELSE LET counted == SelectSeq([k \in 1..Len(vpcs) |->
                                     IF vpcs[k] THEN Strip(vpc_groups[k]) ELSE <<>>],
                                  IsNonBlank)
             few(group) == Count(counted, group) < MIN_VPC_GROUP_MEMBERS
         IN  Returns(SelectSeq(Keys(counted), few), <<>>)

\* collect_validation_errors, line 152.
IsError(v) == v # NoneV /\ Strip(v.s) # <<>>
collect_validation_errors_deduplicated(validators) ==
    LET kept == SelectSeq(validators, IsError)
    IN  Keys([k \in 1..Len(kept) |-> Strip(kept[k].s)])
collect_validation_errors(validators) ==
    LET kept == SelectSeq(validators, IsError)
    IN  [k \in 1..Len(kept) |-> Strip(kept[k].s)]

\* ipaddress.ip_network(value, strict=False): the text is an IPv4 network
\* (an address of four decimal octets, optionally followed by "/" and a
\* prefix length, a netmask or a host mask) or an IPv6 network (an address,
\* optionally followed by "/" and a prefix length).
\* str.isascii() and str.isdigit(): the characters "0" to "9".
AllDigits(str) == str # <<>> /\ \A k \in 1..Len(str) : str[k] \in Ord["0"]..Ord["9"]
RECURSIVE ToInt(_)
ToInt(str) ==
    IF str = <<>> THEN 0
    ELSE ToInt(SubSeq(str, 1, Len(str) - 1)) * 10 + (str[Len(str)] - Ord["0"])
IsOctet(str) ==
    /\ AllDigits(str)
    /\ Len(str) <= 3
    /\ Len(str) > 1 => str[1] # Ord["0"]
    /\ ToInt(str) <= 255
IsIPv4Address(str) ==
    LET octets == Split(str, Ord["."])
    IN  Len(octets) = 4 /\ \A k \in 1..4 : IsOctet(octets[k])
MaskOctets == {0, 128, 192, 224, 240, 248, 252, 254, 255}
IsNetmaskOctets(o) ==
    \E k \in 1..4 :
        /\ \A j \in 1..(k - 1) : o[j] = 255
        /\ o[k] \in MaskOctets
        /\ \A j \in (k + 1)..4 : o[j] = 0

\* sys.int_info.default_max_str_digits: int() raises ValueError for a string
\* of more digits than this, leading zeros included.
int_max_str_digits == 4300

\* The digits of str from its first digit other than "0" on (the last digit
\* when all are "0"): the digits that decide the value int(str).
StripZeros(str) ==
    IF \A k \in 1..Len(str) : str[k] = Ord["0"]
    THEN SubSeq(str, Len(str), Len(str))
    ELSE LET first == CHOOSE k \in 1..Len(str) :
                          /\ str[k] # Ord["0"]
                          /\ \A j \in 1..(k - 1) : str[j] = Ord["0"]
         IN  SubSeq(str, first, Len(str))

\* _prefix_from_prefix_string: ASCII digits, which int() converts (it refuses
\* more than int_max_str_digits of them and the ValueError is reported as an
\* invalid netmask), of a value at most max_prefixlen.
IsPrefixLength(str, max_prefixlen) ==
    /\ AllDigits(str)
    /\ Len(str) <= int_max_str_digits
    /\ Len(StripZeros(str)) <= 3
    /\ ToInt(StripZeros(str)) <= max_prefixlen

\* IPv4Network._make_netmask: a prefix length, a netmask or a host mask.
IsPrefix(str) ==
    \/ IsPrefixLength(str, 32)
    \/ /\ IsIPv4Address(str)
       /\ LET o == [k \in 1..4 |-> ToInt(Split(str, Ord["."])[k])]
          IN  IsNetmaskOctets(o) \/ IsNetmaskOctets([k \in 1..4 |-> 255 - o[k]])
IsIPv4Network(str) ==
    LET parts == Split(str, Ord["/"])
    IN  /\ Len(parts) <= 2
        /\ IsIPv4Address(parts[1])
        /\ Len(parts) = 2 => IsPrefix(parts[2])

\* IPv6Address._parse_hextet: one to four hexadecimal digits.
HexDigits == Range(Text("0123456789ABCDEFabcdef"))
IsHextet(str) ==
    /\ str # <<>>
    /\ Len(str) <= 4
    /\ \A k \in 1..Len(str) : str[k] \in HexDigits

\* IPv6Address(str): an optional scope id after "%", then the parts between
\* colons, at most one "::" standing for the parts left out, the last part
\* possibly an IPv4 address that counts as two parts.
\* The parts on either side of the "::" at skip_index are hextets, at most
\* seven of them; an empty first or last part belongs to a "::" at that end.
IPv6SkipFits(parts, n, skip_index) ==
    LET parts_hi == IF parts[1] = <<>> THEN skip_index - 2 ELSE skip_index - 1
        parts_lo == IF parts[n] = <<>> THEN n - skip_index - 1 ELSE n - skip_index
    IN  /\ parts[1] = <<>> => parts_hi = 0
        /\ parts[n] = <<>> => parts_lo = 0
        /\ parts_hi + parts_lo <= 7
        /\ \A k \in 1..parts_hi : IsHextet(parts[k])
        /\ \A k \in (n - parts_lo + 1)..n : IsHextet(parts[k])
IPv6PartsFit(parts, n, skips) ==
    /\ n <= 9
    /\ Cardinality(skips) <= 1
    /\ IF skips # {}
       THEN IPv6SkipFits(parts, n, CHOOSE k \in skips : TRUE)
       ELSE n = 8 /\ \A k \in 1..8 : IsHextet(parts[k])
IPv6Parts(parts) ==
    IPv6PartsFit(parts, Len(parts), {k \in 2..(Len(parts) - 1) : parts[k] = <<>>})
IPv6Last(colon, last, dotted) ==
    /\ dotted => IsIPv4Address(last)
    /\ IPv6Parts(IF dotted
                 THEN SubSeq(colon, 1, Len(colon) - 1) \o <<Text("0"), Text("0")>>
                 ELSE colon)
IPv6Colons(colon, last) ==
    /\ Len(colon) >= 3
    /\ IPv6Last(colon, last, \E k \in 1..Len(last) : last[k] = Ord["."])
IPv6Scoped(pieces, colon) ==
    /\ Len(pieces) = 1 \/ (Len(pieces) = 2 /\ pieces[2] # <<>>)
    /\ IPv6Colons(colon, colon[Len(colon)])
IPv6Pieces(pieces) == IPv6Scoped(pieces, Split(pieces[1], Ord[":"]))
IsIPv6Address(str) == IPv6Pieces(Split(str, Ord["%"]))
IsIPv6Network(str) ==
    LET parts == Split(str, Ord["/"])
    IN  /\ Len(parts) <= 2
        /\ IsIPv6Address(parts[1])
        /\ Len(parts) = 2 => IsPrefixLength(parts[2], 128)

\* ip_network: IPv4Network is tried first, then IPv6Network.
IsNetwork(str) == IsIPv4Network(str) \/ IsIPv6Network(str)

\* validate_ip_subnet, lines 211-220.
validate_ip_subnet(value, field_name) ==
    IF value = NoneV \/ Strip(value.s) = <<>>
    THEN StrV(field_name \o Text(" is required"))
    ELSE IF IsNetwork(Strip(value.s)) THEN NoneV
    ELSE StrV(field_name \o Text(" must be a valid IP subnet (e.g., 192.168.1.0/24)"))

\* validate_ip_subnet_optional, lines 242-251.
validate_ip_subnet_optional_unstripped(value, field_name) ==
    IF value = NoneV \/ value.s = <<>>
    THEN NoneV
    ELSE IF IsNetwork(Strip(value.s)) THEN NoneV
    ELSE StrV(field_name \o Text(" must be a valid IP subnet (e.g., 192.168.1.0/24)"))
validate_ip_subnet_optional(value, field_name) ==
    IF value = NoneV \/ Strip(value.s) = <<>>
    THEN NoneV
    ELSE IF IsNetwork(Strip(value.s)) THEN NoneV
    ELSE StrV(field_name \o Text(" must be a valid IP subnet (e.g., 192.168.1.0/24)"))

\* The calls of these validators the model draws from.
\* <<12288, 97>> is "a" after U+3000 (ideographic space), <<201>> is U+00C9.
NameValues == {Text(""), Text(" "), Text("a"), Text("a "), <<12288, 97>>, Text("b"), Text("B"),
               <<201>>}
UniqueNamesCalls ==
    {[fn |-> "validate_unique_names", names |-> names, field_name |-> field_name] :
        names \in ListsUpTo(NameValues, MaxNames),
        field_name \in {Text("Interface"), Text("Interface names")}}
\* <<8195>> is U+2003 (em space).
GroupValues == {Text(""), Text("g1"), Text(" g1"), <<8195>> \o Text("g1"), Text("g2")}
VpcGroupsCalls ==
    {[fn |-> "validate_vpc_groups", vpcs |-> vpcs, vpc_groups |-> vpc_groups] :
        vpcs \in ListsUpTo(BOOLEAN, MaxItems),
        vpc_groups \in ListsUpTo(GroupValues, MaxItems)}
RequiredSelectionCalls ==
    {[fn |-> "validate_required_selection", options |-> options,
      selected_value |-> selected_value, field_name |-> field_name] :
        options \in ListsUpTo({Text(""), Text("A"), Text("B")}, MaxItems),
        selected_value \in {NoneV, StrV(Text("")), StrV(Text(" ")), StrV(Text("A")), StrV(Text("C"))},
        field_name \in {Text("Location"), Text("Strategy")}}
ErrorValues == {NoneV, StrV(Text("")), StrV(Text(" ")), StrV(<<12288>>), StrV(Text("Error 1")), StrV(Text("Error 2")),
                StrV(Text(" Error 3 "))}
CollectCalls ==
    {[fn |-> "collect_validation_errors", validators |-> validators] :
        validators \in ListsUpTo(ErrorValues, MaxItems)}
\* n times the digit "0".
Zeros(n) == [k \in 1..n |-> Ord["0"]]
SubnetValues ==
    {NoneV} \cup
    {StrV(Text(str)) : str \in {"", " ", "\t", "\f", "\f10.0.0.0/8\f", "192.168.1.0/24",
                          " 192.168.1.0/24 ", "192.168.1.5/24",
                          "10.0.0.0/8", "10.0.0.0/0", "10.0.0.0/32", "10.0.0.0/33",
                          "10.0.0.1", "10.0.0.0/255.255.255.0", "10.0.0.0/0.0.0.255",
                          "10.0.0.0/255.0.255.0", "10.0.0/24", "10.0.0.256/24",
                          "10.0.0.01/24", "10.0.0.0/24/1", "10.0.0.0/", "/24",
                          "not-an-ip", "invalid", "10.0.0.0 /24", "1.2.3.4.5/8",
                          "10.0.0.0/0000000024", "10.0.0.0/0000000033",
                          "2001:db8::/32", "2001:db8::1/64", "::1", "::", "::/129",
                          "1::2::3", "1:2:3:4:5:6:7:8", "1:2:3:4:5:6:7",
                          "::ffff:10.0.0.1/128", "fe80::1%eth0/64", "2001:db8::g/32"}}
    \cup {StrV(<<12288>>), StrV(<<8195>> \o Text("10.0.0.0/8") \o <<12288>>),
          StrV(Text("10.0.0.0/") \o <<65298, 52>>)}
    \cup {StrV(Text(network) \o Zeros(n) \o Text(length)) :
              network \in {"10.0.0.0/", "::/"},
              n \in {int_max_str_digits - 1, int_max_str_digits},
              length \in {"8", "129"}}
SubnetCalls ==
    {[fn |-> fn, value |-> value, field_name |-> field_name] :
        fn \in {"validate_ip_subnet", "validate_ip_subnet_optional"},
        value \in SubnetValues,
        field_name \in {Text("S"), Text("Customer Subnet"), Text("Public Subnet")}}

InitValidators ==
    /\ EngineInit
    /\ vcall \in UniqueNamesCalls \cup VpcGroupsCalls \cup RequiredSelectionCalls
                 \cup CollectCalls \cup SubnetCalls
    /\ svc = NoCall

CallUniqueNames ==
    /\ vcall.fn = "validate_unique_names"
    /\ ~Returned(vcall)
    /\ vcall' = [fn |-> vcall.fn, names |-> vcall.names, field_name |-> vcall.field_name,
                 result |-> validate_unique_names(vcall.names, vcall.field_name)]
    /\ UNCHANGED <<engineVars, svc>>

CallVpcGroups ==
    /\ vcall.fn = "validate_vpc_groups"
    /\ ~Returned(vcall)
    /\ vcall' = [fn |-> vcall.fn, vpcs |-> vcall.vpcs, vpc_groups |-> vcall.vpc_groups,
                 result |-> validate_vpc_groups(vcall.vpcs, vcall.vpc_groups)]
    /\ UNCHANGED <<engineVars, svc>>

CallRequiredSelection ==
    /\ vcall.fn = "validate_required_selection"
    /\ ~Returned(vcall)
    /\ vcall' = [fn |-> vcall.fn, options |-> vcall.options,
                 selected_value |-> vcall.selected_value, field_name |-> vcall.field_name,
                 result |-> validate_required_selection(vcall.options, vcall.selected_value,
                                                        vcall.field_name)]
    /\ UNCHANGED <<engineVars, svc>>

CallCollect ==
    /\ vcall.fn = "collect_validation_errors"
    /\ ~Returned(vcall)
    /\ vcall' = [fn |-> vcall.fn, validators |-> vcall.validators,
                 result |-> collect_validation_errors(vcall.validators)]
    /\ UNCHANGED <<engineVars, svc>>

CallIpSubnet ==
    /\ vcall.fn = "validate_ip_subnet"
    /\ ~Returned(vcall)
    /\ vcall' = [fn |-> vcall.fn, value |-> vcall.value, field_name |-> vcall.field_name,
                 result |-> validate_ip_subnet(vcall.value, vcall.field_name)]
    /\ UNCHANGED <<engineVars, svc>>

CallIpSubnetOptional ==
    /\ vcall.fn = "validate_ip_subnet_optional"
    /\ ~Returned(vcall)
    /\ vcall' = [fn |-> vcall.fn, value |-> vcall.value, field_name |-> vcall.field_name,
                 result |-> validate_ip_subnet_optional(vcall.value, vcall.field_name)]
    /\ UNCHANGED <<engineVars, svc>>

NextValidators ==
    \/ CallUniqueNames
    \/ CallVpcGroups
    \/ CallRequiredSelection
    \/ CallCollect
    \/ CallIpSubnet
    \/ CallIpSubnetOptional

SpecValidators == InitValidators /\ [][NextValidators]_vars

\* The stripped values that occur more than once among the non-blank names.
Repeated(names) ==
    {Strip(names[k]) : k \in {k \in 1..Len(names) :
        /\ HasNonWhitespace(names[k])
        /\ \E j \in 1..Len(names) : j # k /\ Strip(names[j]) = Strip(names[k])}}

\* The list holds every element of S once, in ascending order.
ListsAscending(list, S) ==
    /\ Len(list) = Cardinality(S)
    /\ Range(list) = S
    /\ \A k \in 1..(Len(list) - 1) : StrLess(list[k], list[k + 1])

\* f with an "s" appended unless it already ends in "s".
Pluralized(f) ==
    IF Len(f) > 0 /\ f[Len(f)] = Ord["s"] THEN f ELSE f \o Text("s")

\* C21: validate_unique_names(names, f) returns None iff no name that is
\* non-blank after stripping occurs more than once, compared stripped;
\* otherwise the message is "<f pluralized> must be unique. Duplicates
\* found: " followed by every repeated value once, sorted, comma-joined.
C21_UniqueNames ==
    (vcall.fn = "validate_unique_names" /\ Returned(vcall)) =>
        LET dups == Repeated(vcall.names)
        IN  /\ vcall.result = NoneV <=> dups = {}
            /\ dups # {} =>
                 \E list \in [1..Cardinality(dups) -> dups] :
                     /\ ListsAscending(list, dups)
                     /\ vcall.result = StrV(Pluralized(vcall.field_name)
                                            \o Text(" must be unique. Duplicates found: ")
                                            \o Join(list, Text(", ")))

\* Two values were repeated, met in descending order and one of them with
\* surrounding whitespace, and were reported once each in ascending order.
C21_Witness ==
    /\ vcall.fn = "validate_unique_names"
    /\ Returned(vcall)
    /\ vcall.names = <<Text("b"), Text("a "), Text("b"), Text("a")>>
    /\ vcall.field_name = Text("Interface")
    /\ vcall.result = StrV(Text("Interfaces must be unique. Duplicates found: a, b"))

\* The stripped, non-blank group names that at least one and fewer than two
\* flagged entries name.
LonelyGroups(flags, group_names) ==
    {Strip(group_names[k]) : k \in {k \in 1..Len(group_names) :
        /\ flags[k]
        /\ HasNonWhitespace(group_names[k])
        /\ ~\E j \in 1..Len(group_names) :
               j # k /\ flags[j] /\ Strip(group_names[j]) = Strip(group_names[k])}}

\* validate_vpc_groups alone: for lists of equal length it returns each
\* lonely group once and nothing else, for lists of different length it raises.
VpcGroupsFunction ==
    (vcall.fn = "validate_vpc_groups" /\ Returned(vcall)) =>
        IF Len(vcall.vpcs) = Len(vcall.vpc_groups)
        THEN /\ ~vcall.result.raised
             /\ Range(vcall.result.value) = LonelyGroups(vcall.vpcs, vcall.vpc_groups)
             /\ Len(vcall.result.value) = Cardinality(Range(vcall.result.value))
        ELSE vcall.result.raised

\* C23: validate_required_selection(options, selected, f) is None for every
\* selected value when options is empty; for non-empty options it is None
\* iff selected is non-empty and a member of options, and "<f> is required."
\* otherwise.
C23_RequiredSelection ==
    (vcall.fn = "validate_required_selection" /\ Returned(vcall)) =>
        LET chosen == /\ vcall.selected_value # NoneV
                      /\ vcall.selected_value.s # <<>>
                      /\ \E k \in 1..Len(vcall.options) :
                             vcall.options[k] = vcall.selected_value.s
        IN  /\ vcall.options = <<>> => vcall.result = NoneV
            /\ vcall.options # <<>> =>
                 /\ vcall.result = NoneV <=> chosen
                 /\ ~chosen => vcall.result = StrV(vcall.field_name \o Text(" is required."))

\* Nothing was selected and there were no options: accepted.
C23_Witness ==
    /\ vcall.fn = "validate_required_selection"
    /\ Returned(vcall)
    /\ vcall.options = <<>>
    /\ vcall.selected_value = NoneV
    /\ vcall.result = NoneV

\* The arguments that are neither None nor blank, in argument order.
RECURSIVE NonBlankArguments(_)
NonBlankArguments(args) ==
    IF args = <<>> THEN <<>>
    ELSE IF Head(args) # NoneV /\ HasNonWhitespace(Head(args).s)
    THEN <<Head(args).s>> \o NonBlankArguments(Tail(args))
    ELSE NonBlankArguments(Tail(args))

\* C24 as stated: collect_validation_errors returns exactly the sub-sequence
\* of its arguments that are neither None nor blank, in argument order.
C24_CollectReturnsArguments ==
    (vcall.fn = "collect_validation_errors" /\ Returned(vcall)) =>
        vcall.result = NonBlankArguments(vcall.validators)

\* C24, amended: collect_validation_errors returns the arguments that are
\* neither None nor blank, each stripped of surrounding whitespace, in
\* argument order, without reordering or deduplication; the list is empty
\* iff every argument is None or blank.
C24_CollectReturnsStrippedArguments ==
    (vcall.fn = "collect_validation_errors" /\ Returned(vcall)) =>
        LET kept == NonBlankArguments(vcall.validators)
        IN  /\ Len(vcall.result) = Len(kept)
            /\ \A k \in 1..Len(kept) : vcall.result[k] = Strip(kept[k])
            /\ vcall.result = <<>> <=>
                 \A k \in 1..Len(vcall.validators) :
                     \/ vcall.validators[k] = NoneV
                     \/ ~HasNonWhitespace(vcall.validators[k].s)

\* A padded message came back stripped and ahead of a later one, with the
\* None between them dropped.
C24_Witness ==
    /\ vcall.fn = "collect_validation_errors"
    /\ Returned(vcall)
    /\ vcall.validators = <<StrV(Text(" Error 3 ")), NoneV, StrV(Text("Error 1"))>>
    /\ vcall.result = <<Text("Error 3"), Text("Error 1")>>

\* The value is None, empty or whitespace only.
IsBlankValue(value) == value = NoneV \/ ~HasNonWhitespace(value.s)

\* The texts among the subnet values drawn that are CIDR networks, with a
\* prefix length, a netmask or a host mask or with none, host bits set or
\* not: IPv4 of four decimal octets and a prefix of 0 to 32, IPv6 of up to
\* eight hextets and a prefix of 0 to 128.
CidrNetworks ==
    {Text(str) : str \in {"10.0.0.1", "10.0.0.0/0", "10.0.0.0/8", "10.0.0.0/32",
                           "192.168.1.0/24", "192.168.1.5/24", "10.0.0.0/0000000024",
                           "10.0.0.0/255.255.255.0", "10.0.0.0/0.0.0.255",
                           "::", "::1", "2001:db8::/32", "2001:db8::1/64",
                           "1:2:3:4:5:6:7:8", "fe80::1%eth0/64", "::ffff:10.0.0.1/128"}}
    \cup {Text("10.0.0.0/") \o Zeros(int_max_str_digits - 1) \o Text("8"),
          Text("::/") \o Zeros(int_max_str_digits - 1) \o Text("8")}

\* str is one of the networks, with whitespace and nothing else before and
\* after it.
IsPaddedNetwork(str) ==
    \E a \in 1..Len(str) :
        /\ str[a] \notin Whitespace
        /\ \A k \in 1..(a - 1) : str[k] \in Whitespace
        /\ \E b \in a..Len(str) :
              /\ str[b] \notin Whitespace
              /\ \A k \in (b + 1)..Len(str) : str[k] \in Whitespace
              /\ SubSeq(str, a, b) \in CidrNetworks

\* C25: the two subnet validators differ only on blank input.  For None,
\* empty or whitespace-only values validate_ip_subnet returns "<f> is
\* required" and validate_ip_subnet_optional returns None; for every other
\* value either returns None when the value without its surrounding
\* whitespace is a CIDR network, else the fixed message.
C25_SubnetValidators ==
    (vcall.fn \in {"validate_ip_subnet", "validate_ip_subnet_optional"} /\ Returned(vcall)) =>
        LET f == vcall.field_name
        IN  /\ (IsBlankValue(vcall.value) /\ vcall.fn = "validate_ip_subnet")
               => vcall.result = StrV(f \o Text(" is required"))
            /\ (IsBlankValue(vcall.value) /\ vcall.fn = "validate_ip_subnet_optional")
               => vcall.result = NoneV
            /\ ~IsBlankValue(vcall.value)
               => vcall.result =
                      IF IsPaddedNetwork(vcall.value.s) THEN NoneV
                      ELSE StrV(f \o Text(" must be a valid IP subnet (e.g., 192.168.1.0/24)"))

\* The optional validator accepted a whitespace-only value.
C25_Witness ==
    /\ vcall.fn = "validate_ip_subnet_optional"
    /\ Returned(vcall)
    /\ vcall.value = StrV(Text(" "))
    /\ vcall.result = NoneV


(***************************************************************************)
(* src/src/services/deploy_dc.py and src/src/services/connect_device.py:   *)
(* the submit handlers of the two forms                                    *)
(***************************************************************************)

\* An entry of the option list select_options returns.
Option(n) == [label |-> Text(Node(n).display_label), id |-> Text(Node(n).id)]

\* [opt["id"] for opt in options] if options else []
OptionIds(options) == [k \in 1..Len(options) |-> options[k].id]

\* validate_data_center_form, lines 55-72 of deploy_dc.py.
validate_data_center_form(state) ==
    collect_validation_errors(<<
        validate_required_field(state.change_number, Text("Change Number")),
        validate_required_field(state.dc_name, Text("Data Center Name")),
        validate_required_selection(OptionIds(state.location_options), state.location,
                                    Text("Location")),
        validate_required_selection(OptionIds(state.design_options), state.design,
                                    Text("Design Pattern")),
        validate_required_selection(state.strategy_options, state.strategy, Text("Strategy")),
        validate_required_selection(OptionIds(state.provider_options), state.provider,
                                    Text("Provider")),
        validate_ip_subnet(state.customer_subnet, Text("Customer Subnet")),
        validate_ip_subnet(state.management_subnet, Text("Management Subnet")),
        validate_ip_subnet(state.technical_subnet, Text("Technical Subnet")),
        validate_ip_subnet_optional(state.public_subnet, Text("Public Subnet"))>>)

\* validate_connect_device_form, lines 68-83 of connect_device.py.  A value
\* picked from an option list is the option itself, a dict, and has no strip().
validate_connect_device_form(state) ==
    LET groups == state.interfaces.vpc_groups
        filtered_vpc_groups == [k \in 1..Len(groups) |->
                                  IF groups[k] # Text("none") THEN groups[k] ELSE <<>>]
        vpc_group_errors == validate_vpc_groups([k \in 1..Len(groups) |-> groups[k] # Text("none")],
                                                filtered_vpc_groups).value
        vpc_error == IF Len(vpc_group_errors) > 0
                     THEN StrV(Text("Each vPC group must have at least two interfaces. Invalid groups: ")
                               \o Join(vpc_group_errors, Text(", ")))
                     ELSE NoneV
    IN  IF \E v \in {state.change_number, state.device_name, state.device_type, state.location} :
              v # NoneV /\ "s" \notin DOMAIN v
        THEN Raises("AttributeError", <<>>)
        ELSE Returns(collect_validation_errors(<<
                 validate_required_field(state.change_number, Text("Change number")),
                 validate_required_field(state.device_name, Text("Device name")),
                 validate_required_field(state.device_type, Text("Device type")),
                 validate_required_field(state.location, Text("Location")),
                 validate_minimum_count(state.interfaces.names, 1, Text("interface with a name")),
                 validate_unique_names(state.interfaces.names, Text("Interface names")),
                 vpc_error>>), <<>>)

\* `if errors:`, line 449 of deploy_dc.py and line 439 of connect_device.py.
SeveralErrors(errs) == Len(errs) > 1
HasErrors(errs) == Len(errs) > 0

\* What the backend answers to a request of a submission: it does what was
\* asked, or the client raises the named exception.
Answers == {"ok", "ValueError", "KeyError"}

\* A remote mutation attempted through utils.py, and how it ended: "ok",
\* "failed" (the helper returned False or None) or "raised".
Attempt(op, what, how) == [op |-> op, what |-> what, how |-> how]

\* create_branch, lines 191-206 of infrahub.py, once client.branch.create was
\* answered: every exception of the client becomes a ValueError.
create_branch(answer) ==
    IF answer = "ok" THEN Returns("created", <<>>) ELSE Raises("ValueError", <<>>)

\* create_deployment_branch, lines 154-168 of utils.py, for the outcome r of
\* create_branch.
create_deployment_branch(r) ==
    IF r.raised /\ Caught(r.exc, {"ValueError"}) THEN Returns(FALSE, <<>>)
    ELSE IF r.raised THEN r
    ELSE Returns(r.value = "created", <<>>)

\* create_and_save, lines 68-74 of infrahub.py, once node.save was answered:
\* the k-th node of the submission, or the exception of the client.
create_and_save(k, answer) ==
    IF answer = "ok" THEN Returns(NodeV(k), <<>>) ELSE Raises(answer, <<>>)

\* create_and_save_object, lines 197-206 of utils.py, for the outcome r of
\* create_and_save: the object, None or an exception.
create_and_save_object(r) ==
    IF r.raised /\ Caught(r.exc, {"ValueError", "RuntimeError", "ConnectionError"})
    THEN Returns(NoneV, <<>>)
    ELSE r

\* The objects _create_dc_objects creates, in order (lines 316-429 of
\* deploy_dc.py): the public prefix only if form_data.get("public_subnet").
DcObjects(state) ==
    <<[name |-> "Customer Subnet", prefix |-> state.customer_subnet.s],
      [name |-> "Management Subnet", prefix |-> state.management_subnet.s],
      [name |-> "Technical Subnet", prefix |-> state.technical_subnet.s]>>
    \o (IF state.public_subnet # NoneV /\ state.public_subnet.s # <<>>
        THEN <<[name |-> "Public Subnet", prefix |-> state.public_subnet.s]>>
        ELSE <<>>)
    \o <<[name |-> "Data Center", prefix |-> <<>>]>>

\* The outcome of a submission: the validation errors, the remote mutations
\* attempted, the events sent, what was shown, and the exception raised if any.
Submission(errs, attempts, publisher_called, sent, shown, raised, e) ==
    [errors |-> errs, attempts |-> attempts, publisher_called |-> publisher_called,
     sent |-> sent, shown |-> shown, raised |-> raised, exc |-> e]

\* The data-center handler has ended with the outcome out.
DcEnded(state, address, out) ==
    [op |-> "deploy_dc_form", state |-> state, address |-> address, out |-> out]

\* The data-center handler waits for the answer to the request named by at
\* ("branch.create", "create" or "save"); attempts are those that succeeded.
DcWaits(state, address, at, attempts) ==
    [op |-> "deploy_dc_form", state |-> state, address |-> address, at |-> at,
     attempts |-> attempts]

\* The branch name of line 288 of deploy_dc.py.
BranchName(state) == Text("implement_") \o Lower(state.change_number.s)

\* _handle_successful_submission, lines 291-302 of deploy_dc.py, for the
\* outcome b of create_deployment_branch: on success it goes on to
\* _create_dc_objects and the request for the first object.
BranchAttempted(state, address, b) ==
    IF b.raised
    THEN DcEnded(state, address,
                 Submission(<<>>, <<Attempt("create_branch", BranchName(state), "raised")>>,
                            FALSE, <<>>, "", TRUE, b.exc))
    ELSE IF ~b.value
    THEN DcEnded(state, address,
                 Submission(<<>>, <<Attempt("create_branch", BranchName(state), "failed")>>,
                            FALSE, <<>>,
                            "Deployment failed. Branch creation was unsuccessful.", FALSE, ""))
    ELSE DcWaits(state, address, "create",
                 <<Attempt("create_branch", BranchName(state), "ok")>>)

\* _create_dc_objects, lines 316-429 of deploy_dc.py, for the outcome o of
\* create_and_save_object for the object after the attempts that succeeded:
\* an exception leaves the handler, None ends it with the failure message of
\* line 300, an object leads to the request for the next one or, after the
\* data center, to the success message of line 298.
ObjectAttempted(state, address, attempts, object, o) ==
    IF o.raised
    THEN DcEnded(state, address,
                 Submission(<<>>, attempts \o <<Attempt("create", object, "raised")>>,
                            FALSE, <<>>, "", TRUE, o.exc))
    ELSE IF o.value = NoneV
    THEN DcEnded(state, address,
                 Submission(<<>>, attempts \o <<Attempt("create", object, "failed")>>,
                            FALSE, <<>>, "Branch created but object creation failed.",
                            FALSE, ""))
    ELSE IF Len(attempts) < Len(DcObjects(state))
    THEN DcWaits(state, address, "create", attempts \o <<Attempt("create", object, "ok")>>)
    ELSE DcEnded(state, address,
                 Submission(<<>>, attempts \o <<Attempt("create", object, "ok")>>,
                            FALSE, <<>>, "deployment submitted successfully", FALSE, ""))

\* _handle_successful_submission, lines 288-291 of deploy_dc.py, up to the
\* request client.branch.create; without INFRAHUB_ADDRESS get_client raises
\* and no request is made.
HandleSuccessfulDcSubmission(state, address) ==
    IF get_client(address).raised
    THEN BranchAttempted(state, address, create_deployment_branch(get_client(address)))
    ELSE DcWaits(state, address, "branch.create", <<>>)

\* deploy_dc_form on submit, lines 445-452 of deploy_dc.py, up to the first
\* remote request.
deploy_dc_form(state, address) ==
    IF HasErrors(validate_data_center_form(state))
    THEN DcEnded(state, address,
                 Submission(validate_data_center_form(state), <<>>, FALSE, <<>>,
                            "Please fix the following issues:", FALSE, ""))
    ELSE HandleSuccessfulDcSubmission(state, address)

\* _handle_successful_submission, lines 311-342 of connect_device.py: what
\* the form shows for the outcome w of handle_service_workflow.
WorkflowSubmission(w) ==
    Submission(<<>>, <<>>, w.publisher_called, w.sent,
               IF w.callback_ran THEN "Success!" ELSE "", w.raised, w.exc)

\* connect_device_form on submit, lines 436-443 of connect_device.py.
connect_device_form(state, env, producer) ==
    LET v == validate_connect_device_form(state)
    IN  IF v.raised
        THEN Submission(<<>>, <<>>, FALSE, <<>>, "", TRUE, v.exc)
        ELSE IF HasErrors(v.value)
        THEN Submission(v.value, <<>>, FALSE, <<>>, "Please fix the following issues:",
                        FALSE, "")
        ELSE WorkflowSubmission(handle_service_workflow(env, "device_connection", producer,
                                                        TRUE))

\* The data-center form states the model draws from.
Selections == {[options |-> <<>>, selected |-> StrV(Text(""))],
               [options |-> <<Option(1)>>, selected |-> StrV(Text("id-1"))],
               [options |-> <<Option(1)>>, selected |-> NoneV]}
DcFormStates ==
    {[change_number |-> StrV(change_number),
      dc_name |-> StrV(dc_name),
      description |-> StrV(Text("")),
      location_options |-> location.options, location |-> location.selected,
      design_options |-> design.options, design |-> design.selected,
      strategy_options |-> strategy[1], strategy |-> StrV(strategy[2]),
      provider_options |-> <<>>, provider |-> StrV(Text("Acme")),
      customer_subnet |-> StrV(customer_subnet),
      management_subnet |-> StrV(management_subnet),
      technical_subnet |-> StrV(Text(" 10.0.2.1/24 ")),
      public_subnet |-> StrV(public_subnet)] :
        change_number \in {Text(""), Text("CHG-1")},
        dc_name \in {Text(" "), Text("DC1")},
        location \in Selections,
        design \in Selections,
        strategy \in {<< <<>>, Text("") >>, << <<Text("ebgp"), Text("ospf")>>, Text("ospf") >>,
                       << <<Text("ebgp"), Text("ospf")>>, Text("") >>},
        customer_subnet \in {Text(""), Text("10.0.0.0/24"), Text("10.0.0.0/33")},
        management_subnet \in {Text("10.0.1.0/255.255.255.0"), Text("2001:db8::/32"),
                               Text("bad")},
        public_subnet \in {Text(""), Text(" "), <<12288>>, Text("10.0.3.0/24"),
                           Text("10.0.3/24")}}
    \cup {[change_number |-> StrV(Text("CHG-1")),
           dc_name |-> StrV(Text("DC1")),
           description |-> StrV(Text("")),
           location_options |-> <<>>, location |-> StrV(Text("")),
           design_options |-> <<>>, design |-> StrV(Text("")),
           strategy_options |-> <<>>, strategy |-> StrV(Text("")),
           provider_options |-> <<>>, provider |-> StrV(Text("Acme")),
           customer_subnet |-> StrV(Text("10.0.0.0/") \o Zeros(n) \o Text("8")),
           management_subnet |-> StrV(Text("2001:db8::/32")),
           technical_subnet |-> StrV(Text(" 10.0.2.1/24 ")),
           public_subnet |-> StrV(Text(""))] :
             n \in {int_max_str_digits - 1, int_max_str_digits}}

\* The device-connection form states the model draws from.
InterfaceLists ==
    UNION {{[num |-> n, names |-> names, vpc_groups |-> vpc_groups] :
               names \in [1..n -> {Text(""), Text("eth0"), Text("eth1")}],
               vpc_groups \in [1..n -> {Text("none"), Text("vPC-1")}]} : n \in 1..MaxItems}
DeviceFormStates ==
    {[change_number |-> StrV(change_number),
      device_name |-> StrV(device_name),
      device_type |-> device_type,
      location |-> StrV(location),
      interfaces |-> interfaces] :
        change_number \in {Text(""), Text("CHG-1")},
        device_name \in {Text(" "), Text("sw1")},
        device_type \in {StrV(Text("")), StrV(Text("Switch")), Option(1)},
        location \in {Text(""), Text("Rack 1")},
        interfaces \in InterfaceLists}

InitForms ==
    /\ EngineInit
    /\ vcall = NoCall
    /\ svc \in {[op |-> "deploy_dc_form", state |-> state] : state \in DcFormStates}
              \cup {[op |-> "connect_device_form", state |-> state] :
                        state \in DeviceFormStates}

\* The submit button of the data-center form: validation, and with no error
\* the handler goes as far as its first remote request.
SubmitDataCenter ==
    /\ svc.op = "deploy_dc_form"
    /\ DOMAIN svc = {"op", "state"}
    /\ \E address \in Addresses :
          svc' = deploy_dc_form(svc.state, address)
    /\ UNCHANGED <<engineVars, vcall>>

\* The data-center handler waits for the answer to the request at.
DcWaitsFor(at) ==
    svc.op = "deploy_dc_form" /\ "at" \in DOMAIN svc /\ svc.at = at

\* The object whose creation the data-center handler waits for.
DcObject == DcObjects(svc.state)[Len(svc.attempts)]

\* client.branch.create is answered (line 197 of infrahub.py).
BranchCreate ==
    /\ DcWaitsFor("branch.create")
    /\ \E answer \in Answers :
          svc' = BranchAttempted(svc.state, svc.address,
                                 create_deployment_branch(create_branch(answer)))
    /\ UNCHANGED <<engineVars, vcall>>

\* client.create is answered (line 68 of infrahub.py): with the node the
\* handler goes on to node.save, an exception ends create_and_save.
ClientCreate ==
    /\ DcWaitsFor("create")
    /\ \E answer \in Answers :
          svc' = IF answer = "ok"
                 THEN DcWaits(svc.state, svc.address, "save", svc.attempts)
                 ELSE ObjectAttempted(svc.state, svc.address, svc.attempts, DcObject,
                                      create_and_save_object(Raises(answer, <<>>)))
    /\ UNCHANGED <<engineVars, vcall>>

\* node.save(allow_upsert=True) is answered (line 73 of infrahub.py).
NodeSave ==
    /\ DcWaitsFor("save")
    /\ \E answer \in Answers :
          svc' = ObjectAttempted(svc.state, svc.address, svc.attempts, DcObject,
                                 create_and_save_object(
                                     create_and_save(Len(svc.attempts), answer)))
    /\ UNCHANGED <<engineVars, vcall>>

\* The submit button of the device-connection form.  The handler makes no
\* remote request it waits for: handle_service_workflow is called for
\* "device_connection", whose publisher raises TypeError before an event is
\* handed to the producer when Kafka is enabled.
SubmitDeviceConnection ==
    /\ svc.op = "connect_device_form"
    /\ ~Finished(svc)
    /\ \E env \in {NoneV, StrV(Text("false")), StrV(Text("true"))}, producer \in ProducerBehaviours :
          svc' = [op |-> svc.op, state |-> svc.state, env |-> env, producer |-> producer,
                  out |-> connect_device_form(svc.state, env, producer)]
    /\ UNCHANGED <<engineVars, vcall>>

NextForms ==
    \/ SubmitDataCenter
    \/ BranchCreate
    \/ ClientCreate
    \/ NodeSave
    \/ SubmitDeviceConnection

SpecForms == InitForms /\ [][NextForms]_vars

\* A form was submitted and the handler has finished.
Submitted == svc.op \in {"deploy_dc_form", "connect_device_form"} /\ Finished(svc)

\* The handler attempted a remote mutation: a branch or object creation, or
\* the publishing of an event.
AttemptedMutation(out) == out.attempts # <<>> \/ out.publisher_called \/ out.sent # <<>>

\* A remote request of a data-center submission is under way.
DcRequested == svc.op = "deploy_dc_form" /\ "at" \in DOMAIN svc

\* C15: no remote mutation on invalid input.  When validation of a submitted
\* form returned at least one error, no branch and no object was created and
\* no event was published: mutations are attempted only with an empty error
\* list, and a remote request is made only for a form without errors.
C15_NoMutationOnInvalidInput ==
    /\ Submitted =>
        /\ svc.out.errors # <<>> => ~AttemptedMutation(svc.out)
        /\ AttemptedMutation(svc.out)
           => /\ svc.out.errors = <<>>
              /\ svc.op = "deploy_dc_form"
                 => validate_data_center_form(svc.state) = <<>>
              /\ svc.op = "connect_device_form"
                 => validate_connect_device_form(svc.state).value = <<>>
    /\ DcRequested => validate_data_center_form(svc.state) = <<>>

\* A data-center form with a malformed customer subnet (a prefix length of
\* more digits than int() converts) as its only error was submitted with the
\* backend address set, and nothing was attempted.
C15_Witness ==
    /\ Submitted
    /\ svc.op = "deploy_dc_form"
    /\ svc.state.customer_subnet =
           StrV(Text("10.0.0.0/") \o Zeros(int_max_str_digits) \o Text("8"))
    /\ Len(svc.out.errors) = 1
    /\ svc.address = StrV(Text("http://infrahub:8000"))
    /\ svc.out.attempts = <<>>

\* A device-connection form was submitted and the handler has finished.
DeviceSubmitted == svc.op = "connect_device_form" /\ Finished(svc)

\* The message names the vPC groups with too few interfaces.
IsVpcError(message) ==
    LET start == Text("Each vPC group must have at least two interfaces.")
    IN  Len(message) >= Len(start) /\ SubSeq(message, 1, Len(start)) = start

\* The vPC groups of the form that exactly one interface selected.
GroupsSelectedOnce(interfaces) ==
    {g \in Range(interfaces.vpc_groups) :
        /\ g # Text("none")
        /\ Cardinality({k \in 1..Len(interfaces.vpc_groups) :
                           interfaces.vpc_groups[k] = g}) = 1}

\* C22: validate_vpc_groups returns the groups with one flagged member, and
\* the device-connection form reports the vPC error iff some vPC group
\* selected by an interface is selected by only one interface.
C22_VpcErrorReported ==
    DeviceSubmitted =>
        ((\E k \in 1..Len(svc.out.errors) : IsVpcError(svc.out.errors[k]))
             <=> GroupsSelectedOnce(svc.state.interfaces) # {})

\* A data-center form that passed validation was submitted and the handler
\* has finished.
ValidDcSubmitted ==
    /\ svc.op = "deploy_dc_form"
    /\ Finished(svc)
    /\ svc.out.errors = <<>>

\* What an attempt tried to create.
Created(attempt) == IF attempt.op = "create_branch" THEN "Branch" ELSE attempt.what.name

\* The order of creation for a form state: the public prefix only when one
\* was provided, that is when the optional field holds more than whitespace.
CreationOrder(state) ==
    <<"Branch", "Customer Subnet", "Management Subnet", "Technical Subnet">>
    \o (IF ~IsBlankValue(state.public_subnet) THEN <<"Public Subnet">> ELSE <<>>)
    \o <<"Data Center">>

\* C28: the remote creations of a data-center submission are attempted in
\* the order branch, customer, management, technical, public (if provided),
\* data center; each only if every earlier one succeeded, so nothing is
\* attempted after the first failure; the only remote operations are
\* creations (nothing is removed); the success message is shown only if the
\* data-center object was created.
C28_CreationOrder ==
    ValidDcSubmitted =>
        LET attempts == svc.out.attempts
            order == CreationOrder(svc.state)
        IN  /\ Len(attempts) >= 1
            /\ Len(attempts) <= Len(order)
            /\ \A k \in 1..Len(attempts) :
                 /\ Created(attempts[k]) = order[k]
                 /\ attempts[k].op \in {"create_branch", "create"}
                 /\ k < Len(attempts) => attempts[k].how = "ok"
            /\ svc.out.shown = "deployment submitted successfully"
               => /\ Len(attempts) = Len(order)
                  /\ Created(attempts[Len(attempts)]) = "Data Center"
                  /\ attempts[Len(attempts)].how = "ok"
            /\ attempts[Len(attempts)].how # "ok"
               => svc.out.shown # "deployment submitted successfully"

\* C29: validation and creation agree on the optional public subnet.  For a
\* form state that passed validation and whose creations all succeeded, a
\* public prefix was submitted iff the public subnet value is non-blank after
\* stripping, and every prefix value submitted is a well-formed subnet.
C29_PublicSubnetAgreement ==
    (ValidDcSubmitted /\ svc.out.shown = "deployment submitted successfully") =>
        LET attempts == svc.out.attempts
            prefixes == {k \in 1..Len(attempts) :
                            attempts[k].op = "create" /\ Created(attempts[k]) # "Data Center"}
        IN  /\ (\E k \in prefixes : Created(attempts[k]) = "Public Subnet")
               <=> ~IsBlankValue(svc.state.public_subnet)
            /\ \A k \in prefixes : IsNetwork(Strip(attempts[k].what.prefix))

(***************************************************************************)
(* The workflows of src/examples/workflow_patterns.py                      *)
(***************************************************************************)

\* The remote calls (branch creation, create_and_save) all succeed, or one
\* of them is refused.
Failures == {"none"} \cup RemoteCalls

\* WorkflowEngine(workflow_name) with the steps registered so far: nothing
\* has been executed yet.
NewWorkflow(registered, ex) ==
    /\ steps' = [k \in 1..Len(registered) |->
                   WorkflowStep(StepName(k), registered[k][1], registered[k][2], {})]
    /\ supplied' = [k \in 1..Len(registered) |->
                      [args |-> registered[k][2], kwargs |-> {}]]
    /\ example' = ex
    /\ pc' = "idle"
    /\ i' = 1
    /\ initial_context' = [initial |-> [t |-> "str", s |-> "data"]]
    /\ context' = initial_context'
    /\ heap' = EmptyHeap
    /\ steps_results' = <<>>
    /\ errors' = <<>>
    /\ result' = NoResult
    /\ exc' = NoExc
    /\ calls' = <<>>
    /\ nextObj' = 1
    /\ status' = NoStatus
    /\ ncalls' = 0
    /\ UNCHANGED serviceVars

\* The (function, args) pairs the steps of the current workflow were added with.
RegisteredSteps == [k \in 1..Len(steps) |-> <<steps[k].function, supplied[k].args>>]

\* create_dc_deployment_workflow(form_data), lines 59-89: the branch step is
\* added with branch_name, the two location steps with form_data.
CreateDcDeploymentWorkflow ==
    /\ pc \in {"idle", "returned", "raised"}
    /\ \E fail \in Failures :
         NewWorkflow(<< <<"create_branch", <<"branch_name">> >>,
                        <<"create_metro_location", <<"form_data">> >>,
                        <<"create_building_location", <<"form_data">> >> >>,
                     [pattern |-> "factory", fail |-> fail, references |-> NoReferences])

\* DcDeploymentWorkflowBuilder(form_data), lines 96-100.
NewDcDeploymentWorkflowBuilder ==
    /\ pc \in {"idle", "returned", "raised"}
    /\ \E fail \in Failures :
         NewWorkflow(<<>>, [pattern |-> "builder", fail |-> fail,
                            references |-> NoReferences])

\* A method of the builder can add a step to the builder's workflow.
BuilderCanAdd ==
    /\ example.pattern = "builder"
    /\ pc = "idle"
    /\ Len(steps) < MaxSteps

\* add_branch_creation, lines 102-109
AddBranchCreation ==
    /\ BuilderCanAdd
    /\ NewWorkflow(Append(RegisteredSteps, <<"create_branch", <<"branch_name">> >>),
                   example)

\* add_metro_location_creation, lines 111-130: the closure is added alone.
AddMetroLocationCreation ==
    /\ BuilderCanAdd
    /\ NewWorkflow(Append(RegisteredSteps, <<"create_metro_with_reference", <<>> >>),
                   example)

\* add_building_location_creation, lines 132-155
AddBuildingLocationCreation ==
    /\ BuilderCanAdd
    /\ NewWorkflow(Append(RegisteredSteps, <<"create_building_with_reference", <<>> >>),
                   example)

\* create_enhanced_dc_workflow(form_data), lines 194-229: add_step for the
\* branch, add_object_creation_step (lines 170-186) for the two locations.
CreateEnhancedDcWorkflow ==
    /\ pc \in {"idle", "returned", "raised"}
    /\ \E fail \in Failures :
         NewWorkflow(<< <<"create_branch", <<"branch_name">> >>,
                        <<"create_and_register_metro", <<>> >>,
                        <<"create_and_register_building", <<>> >> >>,
                     [pattern |-> "enhanced", fail |-> fail, references |-> NoReferences])

NextPatterns ==
    \/ CreateDcDeploymentWorkflow
    \/ NewDcDeploymentWorkflowBuilder
    \/ AddBranchCreation
    \/ AddMetroLocationCreation
    \/ AddBuildingLocationCreation
    \/ CreateEnhancedDcWorkflow
    \/ Execute
    \/ ExecuteStep
    \/ Return

SpecPatterns == Init /\ [][NextPatterns]_vars

\* The caller's mapping lets the engine log into created_objects.
LogUsable ==
    "created_objects" \in DOMAIN initial_context => initial_context.created_objects # NoneV

\* The invocation of the step that runs the given callable, 0 when there is none.
CallOf(function) ==
    IF \E j \in 1..Len(calls) : calls[j].fn = function
    THEN CHOOSE j \in 1..Len(calls) : calls[j].fn = function
    ELSE 0

\* The closures that create the metro location.
MetroClosures == {"create_metro_with_reference", "create_and_register_metro"}

\* C26: in the workflow built by create_dc_deployment_workflow, when every
\* remote call succeeds, execute returns success_count = total_steps = 3, the
\* metro step having stored the created metro in the shared context and the
\* building step having read it from there.
C26_ContextThreadingExample ==
    (/\ example.pattern = "factory"
     /\ example.fail = "none"
     /\ LogUsable
     /\ pc = "returned")
    => /\ result.success_count = 3
       /\ result.total_steps = 3
       /\ LET m == CallOf("create_metro_location")
              b == CallOf("create_building_location")
          IN  /\ m # 0 /\ b # 0
              /\ calls[m].wrote # NoneV
              /\ "metro_location" \in DOMAIN calls[m].after
              /\ calls[m].after["metro_location"] = calls[m].wrote
              /\ calls[b].read = calls[m].wrote

\* C27: a step whose callable takes no parameters and was registered with no
\* args and no kwargs is invoked with no arguments; when its remote call
\* succeeds the step is recorded as "success" and the reference it stored is
\* available to the following step.
C27_ZeroArgumentSteps ==
    \A j \in 1..Len(calls) :
        (/\ calls[j].fn \in MetroClosures
         /\ AddedWithoutArguments(calls[j].step)
         /\ example.fail # "metro"
         /\ LogUsable)
        => /\ calls[j].received # "context"
           /\ ~calls[j].raised
           /\ j <= Len(steps_results) => steps_results[j].status = "success"
           /\ "metro" \in DOMAIN example.references
           /\ example.references["metro"] = calls[j].wrote

====
